---- MODULE Spec2Model ----
(***************************************************************************)
(* Verification model of the Electrolux status integration                 *)
(* (custom_components/electrolux_status).                                  *)
(*                                                                         *)
(* The module holds several state machines that share one variable list:   *)
(*   Spec          the appliance state model (models.py, entity.py)        *)
(*   SpecClassify  capability classification and entity derivation         *)
(*                 (api.py, models.py)                                     *)
(*   SpecWrite     the write path of switch, number and text entities      *)
(*   SpecWS        the coordinator's background tasks (coordinator.py,     *)
(*                 util.py)                                                *)
(*   SpecUid       ElectroluxEntity.unique_id against the entity registry  *)
(*   SpecSetup     Appliance.setup and setup_entities (models.py, api.py,  *)
(*                 coordinator.py)                                         *)
(*   SpecPoll      the poll cycle over the appliances (coordinator.py)     *)
(*   SpecBool      string_to_boolean (util.py)                             *)
(*   SpecMerge     deep_merge_dicts on dict objects (api.py)               *)
(*   SpecShared    Appliance.state and the entities' snapshots of it       *)
(*                 (models.py, entity.py, coordinator.py)                  *)
(*   SpecRead      ElectroluxEntity.extract_value (entity.py)              *)
(*   SpecKey       the vendor-prefix normalisations (entity.py, number.py) *)
(*   SpecNumber    ElectroluxNumber.native_value (number.py, util.py)      *)
(*   SpecCycle     renew_websocket round after round, SpecCycleFair with   *)
(*                 the fairness of the event loop (coordinator.py)         *)
(*   SpecPair      unique_id of the entities of one appliance (entity.py,  *)
(*                 number.py)                                              *)
(*   SpecSwitch    ElectroluxSwitch.is_on (switch.py)                      *)
(* Every machine leaves the variables of the others unchanged.             *)
(***************************************************************************)
EXTENDS Integers, Sequences, FiniteSets, TLC

VARIABLES
    \* ---- appliance state model (Appliance, ElectroluxEntity) ----
    catalog,            \* Appliance.catalog: attribute path -> capability_info
    state,              \* Appliance.state (the whole state dict)
    appliance_status,   \* ElectroluxEntity.appliance_status: "unset" or "state" (alias of Appliance.state)
    prev,               \* Appliance.state as it was when the last handler started
    last,               \* the last handler that ran and its arguments
    \* ---- capability classification (ElectroluxLibraryEntity, Appliance.get_entity) ----
    capabilities,       \* ElectroluxLibraryEntity.capabilities
    attr_name,          \* the attribute path handed to get_entity
    catalog_item,       \* Appliance.catalog.get(attr_name): NoneV or the catalog entry
    cl_pc,              \* "input", "classified", "derived"
    entity_type,        \* result of get_entity_type
    derived,            \* result of Appliance.get_entity
    \* ---- write path (ElectroluxSwitch, ElectroluxNumber, ElectroluxText) ----
    wr_entity,          \* the entity written to: kind, entity_source, entity_attr, capability, unit
    wr_status,          \* its appliance_status
    wr_value,           \* the value handed to the write operation
    wr_calls,           \* execute_appliance_command calls so far: <<[command, error]>>
    wr_result,          \* "pending", "returned" or "raised"
    wr_error,           \* class of the exception raised to the caller
    wr_refresh,         \* coordinator.async_request_refresh was called
    \* ---- coordinator tasks (ElectroluxCoordinator, ElectroluxApiClient) ----
    renew_task,         \* coordinator.renew_task: "none" or "task"
    renew_pc,           \* the renewal task: "none", "sleep", "await_sse", "await_stream", "done"
    renew_cancel,       \* a cancellation of the renewal task is pending
    renew_await,        \* the task the renewal task awaits, 0 when none
    sse_task,           \* coordinator._sse_task: 0 (None) or a watcher task
    watchers,           \* watch_for_appliance_state_updates tasks: id -> "pending", "done", "cancelled"
    watcher_cancel,     \* watcher tasks with a pending cancellation
    api_sse_task,       \* api._sse_task: 0 (None) or an event stream task
    streams,            \* event stream tasks: id -> "running", "cancelled"
    stream_cancel,      \* event stream tasks with a pending cancellation
    deferred,           \* deferred_update tasks: id -> "sleeping", "done", "cancelled"
    deferred_cancel,    \* deferred tasks with a pending cancellation
    deferred_tasks,     \* coordinator._deferred_tasks
    close_pc,           \* close_websocket: "idle", "await_sse", "await_disconnect", "returned"
    close_await,        \* the task close_websocket awaits, 0 when none
    listeners,          \* add_listener calls made for the appliance's callback, none of them undone
    \* ---- unique ids (ElectroluxEntity.unique_id) ----
    uid_entity,         \* entity_attr, entity_source, pnc_id
    uid_entry,          \* config_entry: entry_id, api_key
    registry,           \* entity registry: set of [config_entry_id, unique_id]
    uid_result,         \* the last value of unique_id, "unset" before the first
    uid_prev,           \* the value before that, kept over a restart
    \* ---- appliance setup (Appliance.setup, ElectroluxCoordinator.setup_entities) ----
    su_capabilities,    \* the capabilities the API returns for the appliance
    su_catalog,         \* Appliance.catalog: attribute path -> catalog entry
    su_reported,        \* the reported state the appliance is built on
    su_pc,              \* "idle", "input", "listed", "done"
    su_sources,         \* result of sources_list
    su_entities,        \* Appliance.entities
    su_result,          \* status "unset", "ok" or the exception raised, and its cause
    su_data,            \* data.capabilities once Appliance.setup has run, NoneV before
    \* ---- poll cycle (ElectroluxCoordinator._async_update_data) ----
    pl_catalog,         \* Appliance.catalog of the appliances polled
    pl_appliances,      \* Appliances.appliances: appliance id -> Appliance.state
    pl_pc,              \* 0 when no poll runs, else the position in the appliances the poll awaits
    pl_calls,           \* what the running poll did: fetches with their outcome, updates with their argument
    pl_result,          \* how the last poll ended: "none", "data" or the exception raised
    pl_polls,           \* polls started so far
    \* ---- util.py: string_to_boolean ----
    sb_word,            \* the vocabulary word the input is a spelling of, "" when it is none
    sb_value,           \* the value handed to string_to_boolean
    sb_fallback,        \* its fallback argument
    sb_result,          \* what it returned
    sb_pc,              \* "idle", "input" or "done"
    \* ---- api.py: deep_merge_dicts on dict objects ----
    dm_heap,            \* the dict objects: object id -> key -> number or reference to a dict object
    dm_before,          \* the dict objects as they were when deep_merge_dicts was called
    dm_dict1,           \* the object handed in as dict1
    dm_dict2,           \* the object handed in as dict2
    dm_result,          \* the object returned, 0 before the call
    \* ---- shared appliance state and the entities' snapshots (models.py, entity.py, coordinator.py) ----
    sh_catalog,         \* Appliance.catalog of the appliance the entities belong to
    sh_heap,            \* the state dict objects: object id -> state dict, Absent when no reference holds it
    sh_state,           \* Appliance.state: the object it refers to, 0 before setup
    sh_entities,        \* entity -> the object its appliance_status refers to, 0 while it has none
    sh_poll,            \* the poll task: "idle" or "fetching" (it awaits get_appliance_state)
    sh_deferred,        \* the deferred_update task: "none", "sleeping" or "fetching"
    sh_read,            \* the last read of an entity: what it saw and what the appliance held, NoneV before the first
    \* ---- entity.py: extract_value on a state snapshot ----
    rd_status,          \* the appliance_status the entity reads from
    rd_entity,          \* the entity: entity_source, entity_attr
    rd_result,          \* what extract_value returned
    rd_pc,              \* "idle", "input" or "done"
    \* ---- vendor-prefix normalisation (entity.py, number.py) ----
    nk_attr,            \* the leaf attribute name (entity_attr)
    nk_keys,            \* the key each site computes for nk_attr, NoneV before
    nk_again,           \* the key each site computes for its own key, NoneV before
    nk_pc,              \* "idle", "input", "keyed" or "done"
    \* ---- ElectroluxNumber.native_value (number.py) ----
    nv_entity,          \* the number entity: unit and capability
    nv_extracted,       \* what extract_value gave to the last native_value, NoneV for nothing
    nv_before,          \* _cached_value when the last native_value started
    nv_cached,          \* ElectroluxNumber._cached_value
    nv_result,          \* what the last native_value returned
    nv_reads,           \* evaluations of native_value so far
    \* ---- the renewal cycle without bound on its rounds (coordinator.py, util.py) ----
    rn_pc,              \* where renew_websocket stands: "none", "sleep", "await_sse", "await_stream", "done"
    rn_cancel,          \* the renewal task has a cancellation pending
    rn_sse,             \* coordinator._sse_task: "none", "pending", "cancelling", "done", "failed", "cancelled"
    rn_stream,          \* the API client's _sse_task: "none", "running", "cancelling", "failed", "cancelled"
    rn_close,           \* where close_websocket stands: "idle", "await_sse", "await_disconnect", "returned"
    rn_last,            \* what the last step of renew_websocket ended with: "none", "await", "restart", "error"
    rn_restarts,        \* parity of the number of restarts made by renew_websocket
    rn_erred,           \* a round of renew_websocket has ended in its exception handler
    \* ---- unique ids of the entities of one appliance (entity.py, number.py) ----
    pr_entities,        \* the number entities of one appliance handed to async_add_entities
    pr_entry,           \* the config entry: entry_id and api_key
    pr_registry,        \* the entity registry: entries with config_entry_id and unique_id
    pr_ids,             \* unique_id of every entity of pr_entities, NoneV before
    \* ---- ElectroluxSwitch.is_on (switch.py) ----
    sw_entity,          \* the switch entity: entity_source, entity_attr, state_mapping of its catalog entry
    sw_status,          \* the entity's appliance_status
    sw_cached,          \* ElectroluxSwitch._cached_value
    sw_result,          \* what the last is_on returned
    sw_pc               \* "idle", "reported" (a state has come) or "read" (is_on has read it)

stateVars == <<catalog, state, appliance_status, prev, last>>

classVars == <<capabilities, attr_name, catalog_item, cl_pc, entity_type, derived>>

writeVars == <<wr_entity, wr_status, wr_value, wr_calls, wr_result, wr_error, wr_refresh>>

wsVars == <<renew_task, renew_pc, renew_cancel, renew_await, sse_task, watchers,
            watcher_cancel, api_sse_task, streams, stream_cancel, deferred,
            deferred_cancel, deferred_tasks, close_pc, close_await, listeners>>

uidVars == <<uid_entity, uid_entry, registry, uid_result, uid_prev>>

setupVars == <<su_capabilities, su_catalog, su_reported, su_pc, su_sources,
               su_entities, su_result, su_data>>

pollVars == <<pl_catalog, pl_appliances, pl_pc, pl_calls, pl_result, pl_polls>>

boolVars == <<sb_word, sb_value, sb_fallback, sb_result, sb_pc>>

mergeVars == <<dm_heap, dm_before, dm_dict1, dm_dict2, dm_result>>

sharedVars == <<sh_catalog, sh_heap, sh_state, sh_entities, sh_poll, sh_deferred, sh_read>>

readVars == <<rd_status, rd_entity, rd_result, rd_pc>>

keyVars == <<nk_attr, nk_keys, nk_again, nk_pc>>

numberVars == <<nv_entity, nv_extracted, nv_before, nv_cached, nv_result, nv_reads>>

cycleVars == <<rn_pc, rn_cancel, rn_sse, rn_stream, rn_close, rn_last, rn_restarts, rn_erred>>

pairVars == <<pr_entities, pr_entry, pr_registry, pr_ids>>

switchVars == <<sw_entity, sw_status, sw_cached, sw_result, sw_pc>>

\* the variables of the machines defined further down
laterVars == <<setupVars, pollVars, boolVars, mergeVars, sharedVars, readVars, keyVars, numberVars, cycleVars, pairVars, switchVars>>

vars == <<stateVars, classVars, writeVars, wsVars, uidVars, laterVars>>

-----------------------------------------------------------------------------
(* Python values.  A dict is D(m) with m a function from its keys; a number *)
(* is S(v); None is NoneV; Absent marks a key left out of a payload.        *)

S(v) == [t |-> "s", v |-> v]

D(m) == [t |-> "d", m |-> m]

\* a Python str
Str(x) == [t |-> "str", s |-> x]

NoneV == [t |-> "n"]

Absent == [t |-> "absent"]

\* an exception raised to the caller
ErrV == [t |-> "err"]

EmptyMap == [k \in {} |-> NoneV]

\* dict.get(key, None)
Get(m, k) == IF k \in DOMAIN m THEN m[k] ELSE NoneV

\* dict.get(key, {}) followed by a dict access: the mapping under key, {} when missing
GetMap(m, k) == IF k \in DOMAIN m /\ m[k].t = "d" THEN m[k].m ELSE EmptyMap

\* m[key] = value
Put(m, k, v) == [x \in (DOMAIN m) \cup {k} |-> IF x = k THEN v ELSE m[x]]

\* Python truthiness of a value
Truthy(v) ==
    CASE v.t = "n" -> FALSE
      [] v.t = "s" -> v.v # 0
      [] v.t = "str" -> v.s # ""
      [] v.t = "d" -> DOMAIN v.m # {}
      [] v.t = "b" -> v.b
      [] OTHER -> FALSE

\* a payload entry that may be left out
Opt(k, choice) == IF choice = Absent THEN EmptyMap ELSE k :> choice

-----------------------------------------------------------------------------
(* Python str operations, character by character.                           *)

Chr(s, i) == SubSeq(s, i, i)

LowerAlpha == "abcdefghijklmnopqrstuvwxyz"

UpperAlpha == "ABCDEFGHIJKLMNOPQRSTUVWXYZ"

AlphaIdx == 1..Len(LowerAlpha)

LowerChar(c) ==
    IF \E i \in AlphaIdx : Chr(UpperAlpha, i) = c
    THEN Chr(LowerAlpha, CHOOSE i \in AlphaIdx : Chr(UpperAlpha, i) = c)
    ELSE c

UpperChar(c) ==
    IF \E i \in AlphaIdx : Chr(LowerAlpha, i) = c
    THEN Chr(UpperAlpha, CHOOSE i \in AlphaIdx : Chr(LowerAlpha, i) = c)
    ELSE c

\* str.lower()
RECURSIVE lower(_)
lower(s) == IF s = "" THEN "" ELSE LowerChar(Head(s)) \o lower(Tail(s))

\* str.upper()
RECURSIVE upper(_)
upper(s) == IF s = "" THEN "" ELSE UpperChar(Head(s)) \o upper(Tail(s))

\* str.startswith(prefix)
startswith(s, prefix) == Len(s) >= Len(prefix) /\ SubSeq(s, 1, Len(prefix)) = prefix

\* sub in s
Contains(s, sub) == \E i \in 1..(Len(s) + 1) : startswith(SubSeq(s, i, Len(s)), sub)

\* str.replace(old, new), every occurrence, left to right (old is not empty)
RECURSIVE replace(_, _, _)
replace(s, old, new) ==
    IF s = "" THEN ""
    ELSE IF startswith(s, old) THEN new \o replace(SubSeq(s, Len(old) + 1, Len(s)), old, new)
    ELSE Head(s) \o replace(Tail(s), old, new)

\* str.strip(ch) for a one-character ch
RECURSIVE lstrip(_, _)
lstrip(s, ch) == IF s # "" /\ Head(s) = ch THEN lstrip(Tail(s), ch) ELSE s

RECURSIVE rstrip(_, _)
rstrip(s, ch) ==
    IF s # "" /\ Chr(s, Len(s)) = ch THEN rstrip(SubSeq(s, 1, Len(s) - 1), ch) ELSE s

strip(s, ch) == rstrip(lstrip(s, ch), ch)

\* positions of the separator in s
SepPositions(s, sep) == { i \in 1..Len(s) : Chr(s, i) = sep }

Max(set) == CHOOSE x \in set : \A y \in set : y <= x

Min(set) == CHOOSE x \in set : \A y \in set : x <= y

\* str.rpartition(sep)[0] and [-1] for a one-character sep
rpartition_head(s, sep) ==
    IF SepPositions(s, sep) = {} THEN "" ELSE SubSeq(s, 1, Max(SepPositions(s, sep)) - 1)

rpartition_tail(s, sep) ==
    IF SepPositions(s, sep) = {} THEN s ELSE SubSeq(s, Max(SepPositions(s, sep)) + 1, Len(s))

\* str.split(sep) for a one-character sep
RECURSIVE split(_, _)
split(s, sep) ==
    IF SepPositions(s, sep) = {} THEN <<s>>
    ELSE LET i == Min(SepPositions(s, sep))
         IN <<SubSeq(s, 1, i - 1)>> \o split(SubSeq(s, i + 1, Len(s)), sep)

-----------------------------------------------------------------------------
(* Bounds and input domains of the appliance state model.                   *)

MaxVal == 2

\* the catalog default of the constant attribute, a value no payload carries
ConstDefault == 9

ScalarVals == {S(v) : v \in 0..MaxVal}

\* catalogs the appliance may be set up with: attribute K is not in the catalog,
\* is read-write, is constant with a default, or is constant without one
CatalogChoices ==
    { EmptyMap,
      "K" :> [access |-> "readwrite", default |-> NoneV],
      "K" :> [access |-> "constant", default |-> S(ConstDefault)],
      "K" :> [access |-> "constant", default |-> NoneV] }

SubTrees == { D("x" :> S(1)), D(("x" :> S(MaxVal)) @@ ("y" :> S(1))) }

\* reported trees the API may return or push
Payloads ==
    { Opt("K", k) @@ Opt("a", a) @@ Opt("S", s) :
        k \in {Absent} \cup {S(v) : v \in 1..MaxVal},
        a \in {Absent, S(0)},
        s \in {Absent} \cup SubTrees }

\* the entities of the appliance: (entity_source, entity_attr)
Entities ==
    { [entity_source |-> "", entity_attr |-> "K"],
      [entity_source |-> "", entity_attr |-> "a"],
      [entity_source |-> "S", entity_attr |-> "x"] }

-----------------------------------------------------------------------------
(* models.py                                                                *)

\* deep_merge_dicts(dict1, dict2)
RECURSIVE deep_merge_dicts(_, _)
deep_merge_dicts(dict1, dict2) ==
    [key \in (DOMAIN dict1) \cup (DOMAIN dict2) |->
        IF key \in DOMAIN dict2
        THEN IF key \in DOMAIN dict1 /\ dict1[key].t = "d" /\ dict2[key].t = "d"
             THEN D(deep_merge_dicts(dict1[key].m, dict2[key].m))
             ELSE dict2[key]
        ELSE dict1[key]]

\* ElectroluxApiClient.get_appliance_state: the state dict built around a fetched
\* reported tree
get_appliance_state(rep) ==
    ("applianceId" :> S(1)) @@ ("connectionState" :> S(1)) @@ ("status" :> S(1))
        @@ ("properties" :> D("reported" :> D(rep)))

\* Appliance.reported_state
reported_state(st) == GetMap(GetMap(st, "properties"), "reported")

\* the state dict after an in-place assignment to the reported tree; when the
\* state has no properties.reported the property returns a temporary dict and
\* the assignment is lost
SetReported(st, rep) ==
    IF "properties" \in DOMAIN st /\ st["properties"].t = "d"
       /\ "reported" \in DOMAIN st["properties"].m
       /\ st["properties"].m["reported"].t = "d"
    THEN Put(st, "properties", D(Put(st["properties"].m, "reported", D(rep))))
    ELSE st

\* Appliance.initialize_constant_values
initialize_constant_values(cat, st) ==
    LET rep == reported_state(st)
        missing == { key \in DOMAIN cat :
                        /\ cat[key].access = "constant"
                        /\ cat[key].default # NoneV
                        /\ key \notin DOMAIN rep }
    IN  IF DOMAIN rep = {}
        THEN st
        ELSE SetReported(st, [key \in (DOMAIN rep) \cup missing |->
                                 IF key \in missing THEN cat[key].default ELSE rep[key]])

\* Appliance.update: the poll path
ApplianceUpdateState(cat, appliance_status_in) ==
    initialize_constant_values(cat, appliance_status_in)

\* Appliance.update_reported_data, branch "property" and "value" in reported_data
PatchReported(st, property_name, property_value) ==
    SetReported(st, Put(reported_state(st), property_name, property_value))

\* Appliance.update_reported_data, full-block branch
MergeReported(cat, st, reported_data) ==
    LET rep == reported_state(st)
        constant_values == { key \in DOMAIN cat :
                                cat[key].access = "constant" /\ key \in DOMAIN rep }
        merged == deep_merge_dicts(rep, reported_data)
        \* dict.update(merged): every key of merged is assigned
        updated == [key \in (DOMAIN rep) \cup (DOMAIN merged) |->
                       IF key \in DOMAIN merged THEN merged[key] ELSE rep[key]]
        restored == [key \in DOMAIN updated |->
                       IF key \in constant_values /\ key \notin DOMAIN reported_data
                       THEN rep[key] ELSE updated[key]]
    IN  SetReported(st, restored)

-----------------------------------------------------------------------------
(* entity.py                                                                *)

\* ElectroluxEntity.json_path
json_path(e) ==
    IF e.entity_source # "" THEN e.entity_source \o "/" \o e.entity_attr
    ELSE e.entity_attr

\* ElectroluxEntity.extract_value on the snapshot st
extract_value(st, e) ==
    LET top == D(st)
        at_root == \/ (e.entity_source # "" /\ Get(st, e.entity_source) # NoneV)
                   \/ Truthy(Get(st, e.entity_attr))
        \* for item in root_attribute: if root: root = root.get(item)
        step1 == IF at_root THEN top
                 ELSE IF Truthy(top) THEN Get(top.m, "properties") ELSE top
        root == IF at_root THEN top
                ELSE IF Truthy(step1) THEN Get(step1.m, "reported") ELSE step1
    IN  IF ~Truthy(D(st)) THEN NoneV
        ELSE IF ~Truthy(root) THEN NoneV
        ELSE IF e.entity_source # ""
             THEN LET category == Get(root.m, e.entity_source)
                  IN IF ~Truthy(category) THEN NoneV
                     ELSE IF category.t # "d" THEN ErrV
                     ELSE Get(category.m, e.entity_attr)
             ELSE Get(root.m, e.entity_attr)

-----------------------------------------------------------------------------
(* The appliance state machine.                                             *)

NoOp == [kind |-> "none", property |-> "", value |-> NoneV, payload |-> EmptyMap]

\* the classification machine at rest
ClassifyIdle ==
    /\ capabilities = D(EmptyMap)
    /\ attr_name = ""
    /\ catalog_item = NoneV
    /\ cl_pc = "idle"
    /\ entity_type = "unset"
    /\ derived = [raised |-> FALSE, entities |-> {}]

\* the write path at rest
WriteIdle ==
    /\ wr_entity = NoneV
    /\ wr_status = NoneV
    /\ wr_value = NoneV
    /\ wr_calls = <<>>
    /\ wr_result = "idle"
    /\ wr_error = ""
    /\ wr_refresh = FALSE

\* ElectroluxCoordinator.__init__: no task exists
WsIdle ==
    /\ renew_task = "none"
    /\ renew_pc = "none"
    /\ renew_cancel = FALSE
    /\ renew_await = 0
    /\ sse_task = 0
    /\ watchers = <<>>
    /\ watcher_cancel = {}
    /\ api_sse_task = 0
    /\ streams = <<>>
    /\ stream_cancel = {}
    /\ deferred = <<>>
    /\ deferred_cancel = {}
    /\ deferred_tasks = {}
    /\ close_pc = "idle"
    /\ close_await = 0
    /\ listeners = 0

\* no unique id is being evaluated
UidIdle ==
    /\ uid_entity = NoneV
    /\ uid_entry = NoneV
    /\ registry = {}
    /\ uid_result = "unset"
    /\ uid_prev = "unset"

\* no appliance is being set up
SetupIdle ==
    /\ su_capabilities = NoneV
    /\ su_catalog = EmptyMap
    /\ su_reported = EmptyMap
    /\ su_pc = "idle"
    /\ su_sources = NoneV
    /\ su_entities = {}
    /\ su_result = [status |-> "unset", cause |-> ""]
    /\ su_data = NoneV

\* the poll machine at rest
PollIdle ==
    /\ pl_catalog = EmptyMap
    /\ pl_appliances = EmptyMap
    /\ pl_pc = 0
    /\ pl_calls = <<>>
    /\ pl_result = "none"
    /\ pl_polls = 0

\* the conversion machine at rest
BoolIdle ==
    /\ sb_word = ""
    /\ sb_value = NoneV
    /\ sb_fallback = TRUE
    /\ sb_result = NoneV
    /\ sb_pc = "idle"

\* the merge machine at rest
MergeIdle ==
    /\ dm_heap = <<>>
    /\ dm_before = <<>>
    /\ dm_dict1 = 0
    /\ dm_dict2 = 0
    /\ dm_result = 0

\* the shared-state machine at rest
SharedIdle ==
    /\ sh_catalog = EmptyMap
    /\ sh_heap = <<>>
    /\ sh_state = 0
    /\ sh_entities = EmptyMap
    /\ sh_poll = "idle"
    /\ sh_deferred = "none"
    /\ sh_read = NoneV

\* the read machine at rest
ReadIdle ==
    /\ rd_status = EmptyMap
    /\ rd_entity = NoneV
    /\ rd_result = NoneV
    /\ rd_pc = "idle"

\* no attribute name is being normalised
KeyIdle ==
    /\ nk_attr = ""
    /\ nk_keys = NoneV
    /\ nk_again = NoneV
    /\ nk_pc = "idle"

\* no number entity is being read
NumberIdle ==
    /\ nv_entity = NoneV
    /\ nv_extracted = NoneV
    /\ nv_before = NoneV
    /\ nv_cached = NoneV
    /\ nv_result = NoneV
    /\ nv_reads = 0

\* no renewal cycle is being followed
CycleIdle ==
    /\ rn_pc = "none"
    /\ rn_cancel = FALSE
    /\ rn_sse = "none"
    /\ rn_stream = "none"
    /\ rn_close = "idle"
    /\ rn_last = "none"
    /\ rn_restarts = 0
    /\ rn_erred = FALSE

\* no appliance has its entities registered
PairIdle ==
    /\ pr_entities = {}
    /\ pr_entry = NoneV
    /\ pr_registry = {}
    /\ pr_ids = NoneV

\* no switch entity is being read
SwitchIdle ==
    /\ sw_entity = NoneV
    /\ sw_status = EmptyMap
    /\ sw_cached = NoneV
    /\ sw_result = NoneV
    /\ sw_pc = "idle"

\* the machines defined further down at rest
LaterIdle == SetupIdle /\ PollIdle /\ BoolIdle /\ MergeIdle /\ SharedIdle /\ ReadIdle /\ KeyIdle /\ NumberIdle /\ CycleIdle /\ PairIdle /\ SwitchIdle

\* ElectroluxCoordinator.setup_entities: the appliance is built on a fetched state;
\* entities have no appliance_status until the first update
Init ==
    /\ catalog \in CatalogChoices
    /\ \E rep \in Payloads : state = get_appliance_state(rep)
    /\ appliance_status = "unset"
    /\ prev = state
    /\ last = NoOp
    /\ ClassifyIdle
    /\ WriteIdle
    /\ WsIdle
    /\ UidIdle
    /\ LaterIdle

\* ElectroluxCoordinator._async_update_data / deferred_update -> Appliance.update
Update ==
    \E rep \in Payloads :
        /\ state' = ApplianceUpdateState(catalog, get_appliance_state(rep))
        /\ appliance_status' = "state"
        /\ prev' = state
        /\ last' = [kind |-> "poll", property |-> "", value |-> NoneV, payload |-> rep]
        /\ UNCHANGED catalog
        /\ UNCHANGED <<classVars, writeVars, wsVars, uidVars, laterVars>>

\* ElectroluxCoordinator.incoming_data -> Appliance.update_reported_data with
\* {"property": P, "value": v}
PushPatch ==
    \E e \in Entities, v \in ScalarVals :
        /\ state' = PatchReported(state, json_path(e), v)
        /\ appliance_status' = "state"
        /\ prev' = state
        /\ last' = [kind |-> "patch", property |-> json_path(e), value |-> v,
                    payload |-> EmptyMap]
        /\ UNCHANGED catalog
        /\ UNCHANGED <<classVars, writeVars, wsVars, uidVars, laterVars>>

\* ElectroluxCoordinator.incoming_data -> Appliance.update_reported_data with a
\* partial tree
PushFull ==
    \E data \in Payloads :
        /\ state' = MergeReported(catalog, state, data)
        /\ appliance_status' = "state"
        /\ prev' = state
        /\ last' = [kind |-> "full", property |-> "", value |-> NoneV, payload |-> data]
        /\ UNCHANGED catalog
        /\ UNCHANGED <<classVars, writeVars, wsVars, uidVars, laterVars>>

Next == Update \/ PushPatch \/ PushFull

Spec == Init /\ [][Next]_vars

-----------------------------------------------------------------------------
(* Properties of the appliance state model.                                *)

IsConstant(cat, key) == key \in DOMAIN cat /\ cat[key].access = "constant"

\* C1: a constant-access attribute K=v of the reported state survives a full-state
\* update (poll, or push of a partial tree) whose payload omits K, and takes the
\* payload's value when the payload includes K.
C1_ConstantPreservedByFullUpdate ==
    \A key \in DOMAIN catalog :
        (/\ last.kind \in {"poll", "full"}
         /\ IsConstant(catalog, key)
         /\ key \in DOMAIN reported_state(prev))
        => IF key \in DOMAIN last.payload
           THEN Get(reported_state(state), key) = last.payload[key]
           ELSE Get(reported_state(state), key) = reported_state(prev)[key]

\* the reported tree with the field of entity e set to v
WithField(rep, e, v) ==
    IF e.entity_source = "" THEN Put(rep, e.entity_attr, v)
    ELSE Put(rep, e.entity_source, D(Put(GetMap(rep, e.entity_source), e.entity_attr, v)))

\* C10: a push patch {property: P, value: v} sets the reported field that the
\* entity with attribute path P reads to v and leaves every other reported field,
\* at every depth, unchanged.
C10_PatchUpdatesOnlyTheEntityField ==
    \A e \in Entities :
        (last.kind = "patch" /\ last.property = json_path(e))
        => /\ extract_value(state, e) = last.value
           /\ reported_state(state) = WithField(reported_state(prev), e, last.value)

-----------------------------------------------------------------------------
(* const.py, api.py: ElectroluxLibraryEntity                                *)

BINARY_SENSOR == "binary_sensor"

BUTTON == "button"

NUMBER == "number"

SELECT == "select"

SENSOR == "sensor"

SWITCH == "switch"

TEXT == "text"

PLATFORMS == {BINARY_SENSOR, BUTTON, NUMBER, SELECT, SENSOR, SWITCH, TEXT}

\* re.sub(r"^<prefix>[^_]+_", "", s)
StripPrefixedToken(s, prefix) ==
    LET rest == SubSeq(s, Len(prefix) + 1, Len(s))
        us == SepPositions(rest, "_")
    IN  IF startswith(s, prefix) /\ us # {} /\ Min(us) >= 2
        THEN SubSeq(rest, Min(us) + 1, Len(rest))
        ELSE s

\* re.sub(r"^<prefix>", "", s)
StripPrefix(s, prefix) ==
    IF startswith(s, prefix) THEN SubSeq(s, Len(prefix) + 1, Len(s)) ELSE s

\* the RENAME_RULES applied in order
ApplyRenameRules(s) ==
    StripPrefix(
        StripPrefixedToken(
            StripPrefix(StripPrefixedToken(s, "userSelections/"), "userSelections/"),
            "fCMiscellaneousState/"),
        "fCMiscellaneousState/")

\* ElectroluxLibraryEntity.get_entity_name
get_entity_name(name) ==
    LET renamed == ApplyRenameRules(name)
    IN  IF rpartition_tail(renamed, "/") # "" THEN rpartition_tail(renamed, "/") ELSE renamed

\* ElectroluxLibraryEntity.get_entity_attr
get_entity_attr(name) ==
    IF rpartition_tail(name, "/") # "" THEN rpartition_tail(name, "/") ELSE name

\* ElectroluxLibraryEntity.get_category
get_category(name) == rpartition_head(name, "/")

\* the walk of get_capability / get_state over the keys of a path
RECURSIVE WalkKeys(_, _)
WalkKeys(result, keys) ==
    IF keys = <<>> THEN result
    ELSE IF result.t # "d" THEN NoneV
    ELSE IF Get(result.m, Head(keys)) = NoneV THEN NoneV
    ELSE WalkKeys(Get(result.m, Head(keys)), Tail(keys))

\* ElectroluxLibraryEntity.get_capability; caps is D(m) or NoneV
get_capability(caps, name) ==
    IF ~Truthy(caps) THEN NoneV
    ELSE IF Truthy(Get(caps.m, name)) THEN Get(caps.m, name)
    ELSE LET result == WalkKeys(caps, split(name, "/"))
         IN IF result.t = "d" THEN result ELSE NoneV

\* a device class token of a Home Assistant family
DeviceClass(family, token) == [t |-> "dc", family |-> family, token |-> token]

\* ElectroluxLibraryEntity.get_entity_device_class
get_entity_device_class(caps, name) ==
    LET capability_def == get_capability(caps, name)
        type_class == IF Truthy(capability_def) THEN Get(capability_def.m, "type") ELSE NoneV
    IN  IF ~Truthy(capability_def) THEN NoneV
        ELSE IF ~Truthy(type_class) THEN NoneV
        ELSE IF type_class = Str("temperature")
             THEN IF Get(capability_def.m, "access") = Str("readwrite")
                  THEN DeviceClass("number", "temperature")
                  ELSE DeviceClass("sensor", "temperature")
        ELSE NoneV

\* the match statement of get_entity_type
TypeAccessDispatch(name, type_object, access) ==
    CASE type_object = Str("boolean") ->
            IF access = Str("read") THEN BINARY_SENSOR
            ELSE IF access = Str("readwrite") THEN SWITCH
            ELSE "none"
      [] type_object = Str("temperature") ->
            IF access = Str("read") THEN SENSOR
            ELSE IF access = Str("readwrite") THEN NUMBER
            ELSE "none"
      [] type_object = Str("alert") -> SENSOR
      [] OTHER ->
            IF get_entity_name(name) = "executeCommand" /\ access = Str("read") THEN BUTTON
            ELSE IF access = Str("write") THEN BUTTON
            ELSE IF access = Str("constant") THEN SENSOR
            ELSE IF access = Str("read")
                    /\ type_object \in {Str("number"), Str("int"), Str("boolean"), Str("string")}
                 THEN SENSOR
            ELSE IF type_object \in {Str("int"), Str("number")} THEN NUMBER
            ELSE "none"

\* ValuesRule with the select condition joined by "and" instead of "or"
ValuesRule_and(capability_def, type_object, access) ==
    LET values == Get(capability_def.m, "values")
    IN  IF Truthy(values) /\ access = Str("readwrite") /\ values.t = "d"
           /\ Cardinality(DOMAIN values.m) > 0
        THEN IF type_object = Str("string")
                /\ {upper(k) : k \in DOMAIN values.m} = {"ON", "OFF"}
             THEN SWITCH
             ELSE IF type_object \notin {Str("number"), Str("temperature")}
                     /\ Get(capability_def.m, "min") = NoneV
             THEN SELECT
             ELSE "fall"
        ELSE "fall"

\* the "list of values" branch of get_entity_type; "fall" when it returns nothing
ValuesRule(capability_def, type_object, access) ==
    LET values == Get(capability_def.m, "values")
    IN  IF Truthy(values) /\ access = Str("readwrite") /\ values.t = "d"
           /\ Cardinality(DOMAIN values.m) > 0
        THEN IF type_object = Str("string")
                /\ {upper(k) : k \in DOMAIN values.m} = {"ON", "OFF"}
             THEN SWITCH
             ELSE IF type_object \notin {Str("number"), Str("temperature")}
                     \/ Get(capability_def.m, "min") = NoneV
             THEN SELECT
             ELSE "fall"
        ELSE "fall"

\* get_entity_type with the values branch tried before the boolean exception
get_entity_type_values_first(caps, name) ==
    LET capability_def == get_capability(caps, name)
        type_object == Get(capability_def.m, "type")
        access == Get(capability_def.m, "access")
    IN  IF ~Truthy(capability_def) THEN "none"
        ELSE IF ~Truthy(type_object) THEN "none"
        ELSE IF ~Truthy(access) THEN "none"
        ELSE IF ValuesRule(capability_def, type_object, access) # "fall"
             THEN ValuesRule(capability_def, type_object, access)
        ELSE IF type_object = Str("boolean") /\ access = Str("readwrite")
                /\ Get(capability_def.m, "values") # NoneV
             THEN SWITCH
        ELSE TypeAccessDispatch(name, type_object, access)

\* ElectroluxLibraryEntity.get_entity_type; "none" is Python's None
get_entity_type(caps, name) ==
    LET capability_def == get_capability(caps, name)
        type_object == Get(capability_def.m, "type")
        access == Get(capability_def.m, "access")
    IN  IF ~Truthy(capability_def) THEN "none"
        ELSE IF ~Truthy(type_object) THEN "none"
        ELSE IF ~Truthy(access) THEN "none"
        ELSE IF type_object = Str("boolean") /\ access = Str("readwrite")
                /\ Get(capability_def.m, "values") # NoneV
             THEN SWITCH
        ELSE IF ValuesRule(capability_def, type_object, access) # "fall"
             THEN ValuesRule(capability_def, type_object, access)
        ELSE TypeAccessDispatch(name, type_object, access)

-----------------------------------------------------------------------------
(* models.py: Appliance.get_entity                                          *)

\* the capability tree after an in-place change of the descriptor that
\* get_capability returned for name
RECURSIVE PutKeys(_, _, _)
PutKeys(node, keys, v) ==
    IF Len(keys) = 1 THEN D(Put(node.m, Head(keys), v))
    ELSE D(Put(node.m, Head(keys), PutKeys(node.m[Head(keys)], Tail(keys), v)))

SetCapability(caps, name, v) ==
    IF Truthy(Get(caps.m, name)) THEN D(Put(caps.m, name, v))
    ELSE PutKeys(caps, split(name, "/"), v)

\* the capability_info that get_entity ends with: the catalog's when the live
\* descriptor is missing, the live one with the catalog's values when it has none
ResolvedCapability(caps, name, item) ==
    LET live == get_capability(caps, name)
    IN  IF item = NoneV THEN live
        ELSE IF live = NoneV THEN item.capability_info
        ELSE IF "values" \notin DOMAIN live.m /\ "values" \in DOMAIN item.capability_info.m
             THEN D(Put(live.m, "values", item.capability_info.m["values"]))
        ELSE live

\* OverriddenType without the device-class override
OverriddenType_platform_only(api_type, device_class, item) ==
    IF item # NoneV /\ item.entity_platform # NoneV THEN item.entity_platform.s
    ELSE api_type

\* the entity type after the catalog overrides of get_entity
OverriddenType(api_type, device_class, item) ==
    LET by_class ==
            IF device_class = NoneV THEN api_type
            ELSE IF device_class.family = "switch" THEN SWITCH
            ELSE IF device_class.family = "sensor" THEN SENSOR
            ELSE IF device_class.family = "number" THEN NUMBER
            ELSE IF device_class.family = "button" THEN BUTTON
            ELSE IF device_class.family = "binary_sensor" THEN BINARY_SENSOR
            ELSE api_type
    IN  IF item # NoneV /\ item.entity_platform # NoneV THEN item.entity_platform.s
        ELSE by_class

\* the classes electrolux_entity_factory knows
entity_classes == {BINARY_SENSOR, BUTTON, NUMBER, SELECT, SENSOR, SWITCH}

\* one derived entity
Entity(ty, name, capability, device_class, command) ==
    [entity_type |-> ty, entity_attr |-> get_entity_attr(name),
     entity_source |-> get_category(name), capability |-> capability,
     device_class |-> device_class, val_to_send |-> command]

\* variant of factory_commands: the allowed values of every descriptor whose
\* access is not readwrite become commands
factory_commands_not_readwrite(ty, capability_info) ==
    IF Truthy(capability_info) /\ Get(capability_info.m, "access") # Str("readwrite")
    THEN GetMap(capability_info.m, "values")
    ELSE NoneV

\* the commands get_entity hands to the factory: the allowed values of a
\* button, None for every other entity type
factory_commands(ty, capability_info) ==
    IF ty = BUTTON /\ Truthy(capability_info)
    THEN GetMap(capability_info.m, "values")
    ELSE NoneV

\* Appliance.get_entity: the entities derived (raised is TRUE when the factory
\* raises ValueError) and the capability tree it leaves behind
get_entity(caps, name, item) ==
    LET api_type == get_entity_type(caps, name)
        live == get_capability(caps, name)
        capability_info == ResolvedCapability(caps, name, item)
        device_class == IF item # NoneV THEN item.device_class
                        ELSE get_entity_device_class(caps, name)
        ty == OverriddenType(api_type, device_class, item)
        commands == factory_commands(ty, capability_info)
        caps_after == IF live # NoneV /\ capability_info # live
                      THEN SetCapability(caps, name, capability_info)
                      ELSE caps
    IN  IF ty \notin PLATFORMS
        THEN [raised |-> FALSE, entities |-> {}, caps |-> caps_after]
        ELSE IF ty \notin entity_classes
        THEN [raised |-> TRUE, entities |-> {}, caps |-> caps_after]
        ELSE IF commands = NoneV
        THEN [raised |-> FALSE,
              entities |-> {Entity(ty, name, capability_info, device_class, NoneV)},
              caps |-> caps_after]
        ELSE [raised |-> FALSE,
              entities |-> {Entity(ty, name, capability_info, device_class, Str(c)) :
                                c \in DOMAIN commands},
              caps |-> caps_after]

-----------------------------------------------------------------------------
(* Input domains of the classification machine.                             *)

TypeChoices ==
    {Absent, Str(""), Str("boolean"), Str("string"), Str("number"), Str("int"),
     Str("temperature"), Str("alert"), Str("unspecified")}

AccessChoices == {Absent, Str("read"), Str("readwrite"), Str("write"), Str("constant")}

ValuesOf(keys) == D([k \in keys |-> D(EmptyMap)])

ValuesChoices ==
    {Absent, D(EmptyMap), ValuesOf({"ON", "OFF"}), ValuesOf({"on", "Off"}),
     ValuesOf({"COOL", "ECO"}), ValuesOf({"ON", "OFF", "AUTO"})}

MinChoices == {Absent, S(0)}

MaxChoices == {Absent, S(1)}

Descriptor(ty, ac, vals, mn, mx) ==
    D(Opt("type", ty) @@ Opt("access", ac) @@ Opt("values", vals)
        @@ Opt("min", mn) @@ Opt("max", mx))

Descriptors ==
    { Descriptor(ty, ac, vals, mn, mx) :
        ty \in TypeChoices, ac \in AccessChoices, vals \in ValuesChoices,
        mn \in MinChoices, mx \in MaxChoices }

AttrNames == {"mode", "executeCommand", "userSelections/EWX_mode"}

CatalogItem(info, device_class, platform) ==
    [capability_info |-> info, device_class |-> device_class, entity_platform |-> platform]

CatalogItemChoices ==
    { NoneV,
      CatalogItem(Descriptor(Str("string"), Str("readwrite"), ValuesOf({"COOL", "ECO"}),
                             Absent, Absent), NoneV, NoneV),
      CatalogItem(Descriptor(Str("string"), Str("read"), Absent, Absent, Absent),
                  DeviceClass("sensor", "enum"), NoneV),
      CatalogItem(Descriptor(Str("boolean"), Str("read"), Absent, Absent, Absent),
                  DeviceClass("binary_sensor", "door"), NoneV),
      CatalogItem(Descriptor(Str("string"), Str("write"), ValuesOf({"ON", "OFF"}),
                             Absent, Absent), DeviceClass("button", "restart"), NoneV),
      CatalogItem(Descriptor(Str("string"), Str("readwrite"), Absent, Absent, Absent),
                  NoneV, Str(TEXT)),
      CatalogItem(Descriptor(Str("number"), Str("readwrite"), Absent, S(0), S(1)),
                  DeviceClass("number", "temperature"), NoneV),
      CatalogItem(Descriptor(Str("boolean"), Str("readwrite"), Absent, Absent, Absent),
                  DeviceClass("switch", "switch"), NoneV),
      CatalogItem(Descriptor(Str("number"), Str("readwrite"), Absent, S(0), S(1)),
                  DeviceClass("sensor", "temperature"), Str(NUMBER)) }

\* the capability tree that holds descriptor d at path name
CapabilitiesWith(name, d) ==
    IF get_category(name) = "" THEN D(name :> d)
    ELSE D(get_category(name) :> D(get_entity_attr(name) :> d))

-----------------------------------------------------------------------------
(* The classification machine: one attribute of one appliance is classified  *)
(* and its entities are derived.                                            *)

StateIdle ==
    /\ catalog = EmptyMap
    /\ state = get_appliance_state(EmptyMap)
    /\ appliance_status = "unset"
    /\ prev = state
    /\ last = NoOp

InitClassify ==
    /\ StateIdle
    /\ WriteIdle
    /\ WsIdle
    /\ UidIdle
    /\ LaterIdle
    /\ attr_name \in AttrNames
    /\ \E d \in Descriptors : capabilities = CapabilitiesWith(attr_name, d)
    /\ catalog_item \in CatalogItemChoices
    /\ cl_pc = "input"
    /\ entity_type = "unset"
    /\ derived = [raised |-> FALSE, entities |-> {}]

\* ElectroluxLibraryEntity.get_entity_type(attr_name)
Classify ==
    /\ cl_pc = "input"
    /\ entity_type' = get_entity_type(capabilities, attr_name)
    /\ cl_pc' = "classified"
    /\ UNCHANGED <<capabilities, attr_name, catalog_item, derived>>
    /\ UNCHANGED <<stateVars, writeVars, wsVars, uidVars, laterVars>>

\* Appliance.get_entity(attr_name)
GetEntity ==
    /\ cl_pc = "classified"
    /\ LET r == get_entity(capabilities, attr_name, catalog_item)
       IN /\ derived' = [raised |-> r.raised, entities |-> r.entities]
          /\ capabilities' = r.caps
    /\ cl_pc' = "derived"
    /\ UNCHANGED <<attr_name, catalog_item, entity_type>>
    /\ UNCHANGED <<stateVars, writeVars, wsVars, uidVars, laterVars>>

NextClassify == Classify \/ GetEntity

SpecClassify == InitClassify /\ [][NextClassify]_vars

-----------------------------------------------------------------------------
(* Properties of the classifier and of the derivation of entities.         *)

\* the descriptor of the attribute in the capability tree
LiveDescriptor ==
    IF get_category(attr_name) = "" THEN capabilities.m[attr_name].m
    ELSE capabilities.m[get_category(attr_name)].m[get_entity_attr(attr_name)].m

Has(field) == field \in DOMAIN LiveDescriptor

FieldIs(field, v) == Has(field) /\ LiveDescriptor[field] = Str(v)

ValueKeys == IF Has("values") THEN DOMAIN LiveDescriptor["values"].m ELSE {}

NumericWithMin ==
    (FieldIs("type", "number") \/ FieldIs("type", "temperature")) /\ Has("min")

\* C7: a descriptor with type=boolean, access=readwrite and a non-empty values
\* map is classified switch, whatever the values and whatever min/max it has.
C7_BooleanReadWriteWithValuesIsSwitch ==
    (/\ cl_pc = "classified"
     /\ FieldIs("type", "boolean")
     /\ FieldIs("access", "readwrite")
     /\ ValueKeys # {})
    => entity_type = SWITCH

C7_Witness ==
    /\ cl_pc = "classified"
    /\ FieldIs("type", "boolean")
    /\ FieldIs("access", "readwrite")
    /\ ValueKeys = {"COOL", "ECO"}
    /\ Has("min")
    /\ Has("max")
    /\ entity_type = SWITCH

\* C8 as stated: every descriptor with access=readwrite, a non-empty values map
\* and a type that is not numeric, or numeric without min, is classified select.
C8_ReadWriteValuesIsSelect ==
    (/\ cl_pc = "classified"
     /\ Has("type") /\ LiveDescriptor["type"] # Str("")
     /\ FieldIs("access", "readwrite")
     /\ ValueKeys # {}
     /\ ~NumericWithMin)
    => entity_type = SELECT

\* C8 amended: the same, for a type other than boolean and a values map that is
\* not the ON/OFF pair of a string attribute.
C8_ReadWriteValuesIsSelectUnlessSwitch ==
    (/\ cl_pc = "classified"
     /\ Has("type") /\ LiveDescriptor["type"] # Str("")
     /\ ~FieldIs("type", "boolean")
     /\ ~(FieldIs("type", "string") /\ {upper(k) : k \in ValueKeys} = {"ON", "OFF"})
     /\ FieldIs("access", "readwrite")
     /\ ValueKeys # {}
     /\ ~NumericWithMin)
    => entity_type = SELECT

C8_Witness ==
    /\ cl_pc = "classified"
    /\ FieldIs("type", "string")
    /\ FieldIs("access", "readwrite")
    /\ ValueKeys = {"ON", "OFF", "AUTO"}
    /\ Has("min")
    /\ entity_type = SELECT

\* the descriptor has a type and an access that get_entity_type takes as given
Dispatched ==
    /\ cl_pc = "classified"
    /\ Has("type") /\ LiveDescriptor["type"] # Str("")
    /\ Has("access")

\* C24: a descriptor with access=write and a type other than alert, boolean and
\* temperature included, is classified button, and a descriptor with
\* access=constant is classified sensor.
C24_AccessDispatchFallsThrough ==
    Dispatched =>
        /\ (FieldIs("access", "write") /\ ~FieldIs("type", "alert")) => entity_type = BUTTON
        /\ FieldIs("access", "constant") => entity_type = SENSOR

\* the same for the types that have no rule of their own
C24_AccessDispatchOfOtherTypes ==
    (Dispatched /\ ~FieldIs("type", "boolean") /\ ~FieldIs("type", "temperature")) =>
        /\ (FieldIs("access", "write") /\ ~FieldIs("type", "alert")) => entity_type = BUTTON
        /\ FieldIs("access", "constant") => entity_type = SENSOR

\* a write-only boolean attribute was classified as no entity at all
C24_WriteOnlyBooleanUnclassified ==
    /\ Dispatched
    /\ FieldIs("type", "boolean")
    /\ FieldIs("access", "write")
    /\ entity_type = "none"

\* C9: an attribute whose descriptor lacks type or lacks access is classified
\* none and no entity is derived for it, whatever the descriptor or the catalog
\* contains.
C9_NoEntityWithoutTypeAndAccess ==
    (/\ cl_pc \in {"classified", "derived"}
     /\ (~Has("type") \/ ~Has("access")))
    => /\ entity_type = "none"
       /\ cl_pc = "derived" => derived.entities = {}

\* the descriptor get_entity resolves for the attribute (live, else catalog,
\* with the catalog's values when the live one has none)
Resolved == ResolvedCapability(capabilities, attr_name, catalog_item)

\* the allowed values of the resolved descriptor
ResolvedValues == IF Truthy(Resolved) THEN DOMAIN GetMap(Resolved.m, "values") ELSE {}

\* the entity type get_entity ends with, after the catalog overrides
DerivedType ==
    OverriddenType(entity_type,
                   IF catalog_item # NoneV THEN catalog_item.device_class
                   ELSE get_entity_device_class(capabilities, attr_name),
                   catalog_item)

\* one entity per allowed value, each carrying that value as its command
FannedOut ==
    /\ Cardinality(derived.entities) = Cardinality(ResolvedValues)
    /\ {e.val_to_send : e \in derived.entities} = {Str(c) : c \in ResolvedValues}

\* C12: an attribute whose resolved descriptor has an access other than
\* readwrite and N >= 1 allowed values yields exactly N entities, one per value,
\* each carrying that value as the command it sends.
C12_NotReadWriteValuesFanOut ==
    (/\ cl_pc = "derived"
     /\ Truthy(Resolved)
     /\ Get(Resolved.m, "access") # Str("readwrite")
     /\ ResolvedValues # {})
    => FannedOut

\* C12, as the code has it: an attribute that get_entity makes a button and
\* whose resolved descriptor has N >= 1 allowed values yields exactly N button
\* entities, one per value, each carrying that value as the command it sends;
\* an attribute of any other entity type yields at most one entity, and that
\* entity carries no command.
C12_ButtonValuesFanOut ==
    cl_pc = "derived" =>
        /\ (DerivedType = BUTTON /\ ResolvedValues # {})
              => /\ FannedOut
                 /\ \A e \in derived.entities : e.entity_type = BUTTON
        /\ DerivedType # BUTTON
              => /\ Cardinality(derived.entities) <= 1
                 /\ \A e \in derived.entities : e.val_to_send = NoneV

\* a write-only attribute with the two commands ON and OFF became two buttons
C12_Witness ==
    /\ cl_pc = "derived"
    /\ DerivedType = BUTTON
    /\ catalog_item = NoneV
    /\ FieldIs("access", "write")
    /\ ResolvedValues = {"ON", "OFF"}
    /\ Cardinality(derived.entities) = 2

\* the classifier applied to the resolved descriptor
ResolvedType ==
    IF Resolved = NoneV THEN "none"
    ELSE get_entity_type(CapabilitiesWith(attr_name, Resolved), attr_name)

\* the catalog entry of the attribute overrides neither the device class nor
\* the platform
PlainCatalogItem ==
    /\ catalog_item # NoneV
    /\ catalog_item.device_class = NoneV
    /\ catalog_item.entity_platform = NoneV

\* C17: the entity kind get_entity chooses is the classifier's result on the
\* descriptor after the catalog merge; a live {type: string, access: readwrite}
\* without values whose catalog entry supplies values other than ON/OFF and no
\* device class yields a select entity.
C17_ClassifiedAfterCatalogMerge ==
    (cl_pc = "derived" /\ PlainCatalogItem) =>
        /\ \A e \in derived.entities : e.entity_type = ResolvedType
        /\ (ResolvedType \in entity_classes \ {BUTTON}) => derived.entities # {}
        /\ (/\ FieldIs("type", "string") /\ FieldIs("access", "readwrite")
            /\ ResolvedValues = {"COOL", "ECO"})
              => \E e \in derived.entities : e.entity_type = SELECT

\* the values of the catalog reach the descriptor of the entity when the live
\* descriptor classifies without them
C17_CatalogValuesMerged ==
    /\ cl_pc = "derived"
    /\ PlainCatalogItem
    /\ FieldIs("type", "string")
    /\ FieldIs("access", "read")
    /\ \E e \in derived.entities :
          e.entity_type = SENSOR /\ DOMAIN GetMap(e.capability.m, "values") = {"COOL", "ECO"}

\* the families of device class that decide the entity type
ForcingFamilies == {BINARY_SENSOR, BUTTON, NUMBER, SENSOR, SWITCH}

\* the catalog entry of the attribute has a device class of a forcing family
ForcedByClass ==
    /\ catalog_item # NoneV
    /\ catalog_item.device_class # NoneV
    /\ catalog_item.device_class.family \in ForcingFamilies

\* get_entity returned, and what it returned is of the family of the device class
KindOfClass ==
    /\ ~derived.raised
    /\ \A e \in derived.entities : e.entity_type = catalog_item.device_class.family
    /\ (catalog_item.device_class.family # BUTTON) => derived.entities # {}

-----------------------------------------------------------------------------
(* The write path: ElectroluxSwitch.switch, ElectroluxNumber                 *)
(* .async_set_native_value and ElectroluxText.async_set_value.               *)

\* a Python bool
B(b) == [t |-> "b", b |-> b]

\* round() of n/d for d > 0: to the nearest integer, ties to even
RoundDiv(n, d) ==
    LET q == n \div d
        r == n % d
    IN  IF 2 * r < d THEN q
        ELSE IF 2 * r > d THEN q + 1
        ELSE IF q % 2 = 0 THEN q ELSE q + 1

\* util.time_minutes_to_seconds
time_minutes_to_seconds(minutes) ==
    IF minutes = -1 THEN -1 ELSE minutes * 60

\* str(value) of a bool or a str
pystr(value) ==
    CASE value.t = "b" -> (IF value.b THEN "True" ELSE "False")
      [] value.t = "str" -> value.s
      [] OTHER -> ""

\* util.format_command_for_appliance, for bool and number values
format_command_for_appliance(capability, attr, value) ==
    IF ~Truthy(capability)
    THEN IF value.t = "b" THEN Str(IF value.b THEN "ON" ELSE "OFF") ELSE value
    ELSE
    LET cap_type == IF "type" \in DOMAIN capability.m THEN lower(capability.m["type"].s) ELSE ""
    IN  IF cap_type = "boolean"
        THEN IF value.t = "b" THEN value ELSE B(Truthy(value))
        ELSE IF Contains(lower(attr), "temperature") \/ cap_type \in {"number", "float", "integer"}
        THEN LET numeric_value == IF value.t = "b" THEN (IF value.b THEN 1 ELSE 0) ELSE value.v
                 step == Get(capability.m, "step")
                 min_val == IF "min" \in DOMAIN capability.m THEN capability.m["min"].v ELSE 0
             IN  IF step # NoneV /\ step.v > 0 /\ numeric_value >= min_val
                 THEN S(min_val + RoundDiv(numeric_value - min_val, step.v) * step.v)
                 ELSE S(numeric_value)
        ELSE IF cap_type \in {"string", "enum"} \/ "values" \in DOMAIN capability.m
        THEN LET values_dict == GetMap(capability.m, "values")
                 matching == {key \in DOMAIN values_dict : lower(key) = lower(pystr(value))}
             IN  IF DOMAIN values_dict # {}
                 THEN IF pystr(value) \in DOMAIN values_dict THEN Str(pystr(value))
                      ELSE IF matching # {} THEN Str(CHOOSE key \in matching : TRUE)
                      ELSE value
                 ELSE Str(pystr(value))
        ELSE IF value.t = "b" THEN Str(IF value.b THEN "ON" ELSE "OFF") ELSE value

\* appliance_status.get("properties", {}).get("reported", {})
ReportedOf(status) == GetMap(GetMap(status, "properties"), "reported")

\* ElectroluxEntity.is_remote_control_enabled
is_remote_control_enabled(status) ==
    IF DOMAIN status = {} THEN FALSE
    ELSE LET top == Get(status, "remoteControl")
             remote_control_status ==
                 IF top = NoneV THEN Get(ReportedOf(status), "remoteControl") ELSE top
         IN  IF remote_control_status = NoneV THEN TRUE
             ELSE IF Truthy(remote_control_status)
             THEN Contains(pystr(remote_control_status), "ENABLED")
             ELSE TRUE

\* the gate at the head of ElectroluxNumber.async_set_native_value
number_remote_control_enabled(status) ==
    LET remote_control == Get(ReportedOf(status), "remoteControl")
    IN  ~(remote_control # NoneV /\ ~Contains(pystr(remote_control), "ENABLED"))

\* the command of a switch or text write: {source: {attr: value}} or {attr: value},
\* with programUID added under userSelections
SourcedCommand(status, entity_source, entity_attr, value) ==
    IF entity_source # ""
    THEN IF entity_source = "userSelections"
         THEN D(entity_source :>
                  D(("programUID" :> Get(GetMap(ReportedOf(status), "userSelections"), "programUID"))
                    @@ (entity_attr :> value)))
         ELSE D(entity_source :> D(entity_attr :> value))
    ELSE D(entity_attr :> value)

\* the fallback command of ElectroluxNumber.async_set_native_value
fallback_command(entity_attr, formatted_value) ==
    D("userSelections" :> D(entity_attr :> formatted_value))

\* the keywords map_command_error_to_home_assistant_error takes for an
\* authentication failure
AuthKeywords == {"401", "unauthorized", "forbidden", "invalid grant", "token", "auth"}

\* map_command_error_to_home_assistant_error without its authentication check
map_command_error_generic(ex) == "HomeAssistantError"

\* util.map_command_error_to_home_assistant_error: the class of the exception the
\* caller ends up raising
map_command_error_to_home_assistant_error(ex) ==
    IF \E keyword \in AuthKeywords : Contains(lower(ex), keyword)
    THEN "AuthenticationError"
    ELSE "HomeAssistantError"

\* what a write operation leaves behind
WriteOutcome(calls, result, error, refresh) ==
    [calls |-> calls, result |-> result, error |-> error, refresh |-> refresh]

\* one execute_appliance_command call and the exception message it ended with
\* ("" when the command was accepted)
Call(command, error) == [command |-> command, error |-> error]

\* ElectroluxSwitch.switch(value); o1 is the outcome of the API call
switch(entity, status, value, o1) ==
    IF ~is_remote_control_enabled(status)
    THEN WriteOutcome(<<>>, "raised", "HomeAssistantError", FALSE)
    ELSE LET command_value ==
                 format_command_for_appliance(entity.capability, entity.entity_attr, value)
             command ==
                 SourcedCommand(status, entity.entity_source, entity.entity_attr, command_value)
         IN  IF o1 = ""
             THEN WriteOutcome(<<Call(command, o1)>>, "returned", "", FALSE)
             ELSE WriteOutcome(<<Call(command, o1)>>, "raised",
                               map_command_error_to_home_assistant_error(o1), FALSE)

\* ElectroluxText.async_set_value(value)
async_set_value(entity, status, value, o1) ==
    LET command == SourcedCommand(status, entity.entity_source, entity.entity_attr, value)
    IN  IF o1 = ""
        THEN WriteOutcome(<<Call(command, o1)>>, "returned", "", TRUE)
        ELSE WriteOutcome(<<Call(command, o1)>>, "raised",
                          map_command_error_to_home_assistant_error(o1), FALSE)

\* ElectroluxNumber.async_set_native_value(value); o1 and o2 are the outcomes of
\* the first call and of the fallback call
async_set_native_value(entity, status, value, o1, o2) ==
    LET reported == ReportedOf(status)
        converted == IF entity.unit = "s" THEN S(time_minutes_to_seconds(value.v)) ELSE value
        formatted_value ==
            format_command_for_appliance(entity.capability, entity.entity_attr, converted)
        current_selections == GetMap(reported, "latamUserSelections")
        command ==
            IF entity.entity_source = "latamUserSelections"
            THEN D("latamUserSelections" :>
                     D(Put(current_selections, entity.entity_attr, formatted_value)))
            ELSE IF entity.entity_source = "userSelections"
            THEN D("userSelections" :>
                     D(("programUID" :> reported["userSelections"].m["programUID"])
                       @@ (entity.entity_attr :> formatted_value)))
            ELSE IF entity.entity_source # ""
            THEN D(entity.entity_source :> D(entity.entity_attr :> formatted_value))
            ELSE D(entity.entity_attr :> formatted_value)
        first == Call(command, o1)
        second == Call(fallback_command(entity.entity_attr, formatted_value), o2)
    IN  IF ~number_remote_control_enabled(status)
        THEN WriteOutcome(<<>>, "raised", "HomeAssistantError", FALSE)
        ELSE IF entity.entity_source = "latamUserSelections" /\ DOMAIN current_selections = {}
        THEN WriteOutcome(<<>>, "returned", "", FALSE)
        ELSE IF entity.entity_source = "userSelections"
                /\ ("userSelections" \notin DOMAIN reported
                    \/ "programUID" \notin DOMAIN GetMap(reported, "userSelections"))
        THEN WriteOutcome(<<>>, "raised", "KeyError", FALSE)
        ELSE IF o1 = ""
        THEN WriteOutcome(<<first>>, "returned", "", TRUE)
        ELSE IF Contains(lower(o1), "command_validation_error")
        THEN IF o2 = ""
             THEN WriteOutcome(<<first, second>>, "returned", "", TRUE)
             ELSE WriteOutcome(<<first, second>>, "raised",
                               map_command_error_to_home_assistant_error(o2), FALSE)
        ELSE WriteOutcome(<<first>>, "raised",
                          map_command_error_to_home_assistant_error(o1), FALSE)

\* ---- inputs of the write path ----

WrSources == {"", "userSelections", "latamUserSelections", "upperOven"}

RemoteControlChoices ==
    {Absent, Str("ENABLED"), Str("NOT_SAFETY_RELEVANT_ENABLED"), Str("DISABLED")}

UserSelectionsChoices == {Absent, D("programUID" :> Str("P1"))}

LatamChoices == {Absent, D(EmptyMap), D("targetTemperatureC" :> S(1))}

WrStatuses ==
    { get_appliance_state(Opt("remoteControl", rc) @@ Opt("userSelections", us)
                          @@ Opt("latamUserSelections", ls)) :
        rc \in RemoteControlChoices, us \in UserSelectionsChoices, ls \in LatamChoices }

WrEntity(kind, source, attr, capability, unit) ==
    [kind |-> kind, entity_source |-> source, entity_attr |-> attr,
     capability |-> capability, unit |-> unit]

ReadWrite(ty) == ("type" :> Str(ty)) @@ ("access" :> Str("readwrite"))

WrEntities ==
    { WrEntity("switch", src, "cavityLight", D(cap), "") :
        src \in WrSources,
        cap \in {ReadWrite("boolean"), ReadWrite("string") @@ ("values" :> ValuesOf({"ON", "OFF"}))} }
    \cup
    { WrEntity("number", src, "targetTemperatureC", D(cap), unit) :
        src \in WrSources, unit \in {"", "s"},
        cap \in {ReadWrite("number"), ReadWrite("number") @@ ("step" :> S(2)) @@ ("min" :> S(0))} }
    \cup
    { WrEntity("text", src, "applianceName", D(ReadWrite("string")), "") : src \in WrSources }

WrValues(kind) ==
    CASE kind = "switch" -> {B(TRUE), B(FALSE)}
      [] kind = "number" -> ScalarVals
      [] OTHER -> {Str("Oven")}

\* what execute_appliance_command ends with: "" or the message of its exception
ApiOutcomes == {"", "COMMAND_VALIDATION_ERROR", "401 Unauthorized", "Connection timeout"}

\* ---- the write machine: one write of one entity ----

InitWrite ==
    /\ StateIdle
    /\ ClassifyIdle
    /\ WsIdle
    /\ UidIdle
    /\ LaterIdle
    /\ wr_entity \in WrEntities
    /\ wr_status \in WrStatuses
    /\ wr_value \in WrValues(wr_entity.kind)
    /\ wr_calls = <<>>
    /\ wr_result = "pending"
    /\ wr_error = ""
    /\ wr_refresh = FALSE

Finish(out) ==
    /\ wr_calls' = out.calls
    /\ wr_result' = out.result
    /\ wr_error' = out.error
    /\ wr_refresh' = out.refresh
    /\ UNCHANGED <<wr_entity, wr_status, wr_value>>
    /\ UNCHANGED <<stateVars, classVars, wsVars, uidVars, laterVars>>

\* ElectroluxSwitch.async_turn_on / async_turn_off -> switch
SwitchWrite ==
    /\ wr_result = "pending"
    /\ wr_entity.kind = "switch"
    /\ \E o1 \in ApiOutcomes : Finish(switch(wr_entity, wr_status, wr_value, o1))

\* ElectroluxNumber.async_set_native_value
NumberWrite ==
    /\ wr_result = "pending"
    /\ wr_entity.kind = "number"
    /\ \E o1, o2 \in ApiOutcomes :
           Finish(async_set_native_value(wr_entity, wr_status, wr_value, o1, o2))

\* ElectroluxText.async_set_value
TextWrite ==
    /\ wr_result = "pending"
    /\ wr_entity.kind = "text"
    /\ \E o1 \in ApiOutcomes : Finish(async_set_value(wr_entity, wr_status, wr_value, o1))

NextWrite == SwitchWrite \/ NumberWrite \/ TextWrite

SpecWrite == InitWrite /\ [][NextWrite]_vars

-----------------------------------------------------------------------------
(* Properties of the write path.                                           *)

WriteOver == wr_result \in {"returned", "raised"}

ReportedRemoteControl == Get(ReportedOf(wr_status), "remoteControl")

\* the key a command is wrapped under, "" for a command on the attribute itself
Envelope(call) ==
    IF wr_entity.entity_attr \in DOMAIN call.command.m THEN ""
    ELSE CHOOSE k \in DOMAIN call.command.m : TRUE

\* the value a command carries for the entity's attribute
SentValue(call) ==
    IF Envelope(call) = "" THEN call.command.m[wr_entity.entity_attr]
    ELSE call.command.m[Envelope(call)].m[wr_entity.entity_attr]

\* C3: a write on an appliance whose state reports a remoteControl value that
\* does not contain "ENABLED" raises and sends no command; with remoteControl
\* absent the gate lets the write through.
C3_RemoteControlGateOnEveryWrite ==
    WriteOver =>
        /\ (ReportedRemoteControl # NoneV
            /\ ~Contains(ReportedRemoteControl.s, "ENABLED"))
           => (wr_result = "raised" /\ wr_calls = <<>>)
        /\ ReportedRemoteControl = NoneV
           => ~(wr_result = "raised" /\ wr_calls = <<>> /\ wr_error = "HomeAssistantError")

\* C4: a write that returns normally has sent a command that the API accepted.
C4_NoWriteSilentlyDropped ==
    wr_result = "returned" =>
        /\ wr_calls # <<>>
        /\ wr_calls[Len(wr_calls)].error = ""

\* C5: a first attempt rejected with a command validation error and not wrapped
\* under userSelections is retried exactly once under userSelections with the
\* same value; nothing else is retried; a write makes at most two calls and a
\* failed retry raises.
C5_BoundedRetryPolicy ==
    WriteOver =>
        /\ Len(wr_calls) <= 2
        /\ (/\ wr_calls # <<>>
            /\ Contains(lower(wr_calls[1].error), "command_validation_error")
            /\ Envelope(wr_calls[1]) # "userSelections")
           => /\ Len(wr_calls) = 2
              /\ wr_calls[2].command =
                     fallback_command(wr_entity.entity_attr, SentValue(wr_calls[1]))
        /\ (/\ wr_calls # <<>>
            /\ \/ ~Contains(lower(wr_calls[1].error), "command_validation_error")
               \/ Envelope(wr_calls[1]) = "userSelections")
           => Len(wr_calls) = 1
        /\ (Len(wr_calls) = 2 /\ wr_calls[2].error # "") => wr_result = "raised"

\* the message of a rejected command names an authentication failure
AuthRejected(call) == \E keyword \in AuthKeywords : Contains(lower(call.error), keyword)

-----------------------------------------------------------------------------
(* The coordinator's background tasks.  The asyncio event loop runs one task *)
(* at a time; an action is the code a task runs between two suspensions.     *)
(* Task.cancel() on a task that sleeps makes the sleep raise CancelledError; *)
(* on a task that awaits another task it is handed on to that task, and the  *)
(* awaiting task resumes, with CancelledError, when the awaited task is done.*)

MaxTasks == 3

MaxDeferred == 2

\* the coordinator's and the API client's task bookkeeping as one record
Ws ==
    [renew_task |-> renew_task, renew_pc |-> renew_pc, renew_cancel |-> renew_cancel,
     renew_await |-> renew_await, sse_task |-> sse_task, watchers |-> watchers,
     watcher_cancel |-> watcher_cancel, api_sse_task |-> api_sse_task,
     streams |-> streams, stream_cancel |-> stream_cancel, deferred |-> deferred,
     deferred_cancel |-> deferred_cancel, deferred_tasks |-> deferred_tasks,
     close_pc |-> close_pc, close_await |-> close_await, listeners |-> listeners]

SetWs(w) ==
    /\ renew_task' = w.renew_task
    /\ renew_pc' = w.renew_pc
    /\ renew_cancel' = w.renew_cancel
    /\ renew_await' = w.renew_await
    /\ sse_task' = w.sse_task
    /\ watchers' = w.watchers
    /\ watcher_cancel' = w.watcher_cancel
    /\ api_sse_task' = w.api_sse_task
    /\ streams' = w.streams
    /\ stream_cancel' = w.stream_cancel
    /\ deferred' = w.deferred
    /\ deferred_cancel' = w.deferred_cancel
    /\ deferred_tasks' = w.deferred_tasks
    /\ close_pc' = w.close_pc
    /\ close_await' = w.close_await
    /\ listeners' = w.listeners

\* self._sse_task and not self._sse_task.done()
SseNotDone(w) == w.sse_task # 0 /\ w.watchers[w.sse_task] = "pending"

\* Task.cancel() of a watcher task
cancel_watcher(w, id) ==
    IF w.watchers[id] = "pending" THEN [w EXCEPT !.watcher_cancel = @ \cup {id}] ELSE w

\* Task.cancel() of an event stream task
cancel_stream(w, id) ==
    IF w.streams[id] = "running" THEN [w EXCEPT !.stream_cancel = @ \cup {id}] ELSE w

\* Task.cancel() of the renewal task
cancel_renew(w) ==
    IF w.renew_pc = "sleep" THEN [w EXCEPT !.renew_cancel = TRUE] ELSE w

\* ElectroluxCoordinator.listen_websocket (the appliance list is not empty)
listen_websocket(w) ==
    LET c == IF SseNotDone(w) THEN cancel_watcher(w, w.sse_task) ELSE w
    IN  [c EXCEPT !.watchers = Append(@, "pending"), !.sse_task = Len(c.watchers) + 1]

\* renew_websocket once disconnect_websocket is over: listen_websocket, then sleep
renew_restart(w) ==
    [listen_websocket(w) EXCEPT !.renew_pc = "sleep", !.renew_await = 0]

\* disconnect_websocket, called by renew_websocket, after its await
renew_after_stream(w) == renew_restart([w EXCEPT !.api_sse_task = 0])

\* renew_websocket from its call of disconnect_websocket on
renew_disconnect(w) ==
    IF w.api_sse_task # 0
    THEN LET c == cancel_stream(w, w.api_sse_task)
         IN  IF c.streams[c.api_sse_task] = "running"
             THEN [c EXCEPT !.renew_pc = "await_stream", !.renew_await = c.api_sse_task]
             ELSE renew_after_stream(c)
    ELSE renew_restart(w)

\* disconnect_websocket, called by close_websocket
close_disconnect(w) ==
    IF w.api_sse_task # 0
    THEN LET c == cancel_stream(w, w.api_sse_task)
         IN  IF c.streams[c.api_sse_task] = "running"
             THEN [c EXCEPT !.close_pc = "await_disconnect", !.close_await = c.api_sse_task]
             ELSE [c EXCEPT !.api_sse_task = 0, !.close_pc = "returned", !.close_await = 0]
    ELSE [w EXCEPT !.close_pc = "returned", !.close_await = 0]

Alive(tasks) == {d \in DOMAIN tasks : tasks[d] \in {"sleeping", "fetching"}}

\* close_websocket from the cancellation of the deferred tasks on
close_after_sse(w) ==
    close_disconnect([w EXCEPT !.deferred_cancel =
                                   @ \cup (Alive(w.deferred) \cap w.deferred_tasks),
                               !.deferred_tasks = {}])

TIME_ENTITIES_TO_UPDATE == {"timeToEnd"}

\* incoming_data: whether the block of one appliance asks for a deferred update
do_deferred(appliance_data) ==
    \E key \in DOMAIN appliance_data :
        /\ key \in TIME_ENTITIES_TO_UPDATE
        /\ appliance_data[key] # NoneV
        /\ 0 < appliance_data[key].v
        /\ appliance_data[key].v <= 1

InitWS ==
    /\ StateIdle
    /\ ClassifyIdle
    /\ WriteIdle
    /\ UidIdle
    /\ WsIdle
    /\ LaterIdle

WsFrame == UNCHANGED <<stateVars, classVars, writeVars, uidVars, laterVars>>

\* ElectroluxCoordinator.listen_websocket, the first call (async_setup_entry
\* makes it before it launches the renewal task)
ListenWebsocket ==
    /\ close_pc = "idle"
    /\ watchers = <<>>
    /\ SetWs(listen_websocket(Ws))
    /\ WsFrame

\* ElectroluxCoordinator.listen_websocket, a further call from outside the
\* renewal task
ListenWebsocketAgain ==
    /\ close_pc = "idle"
    /\ watchers # <<>>
    /\ Len(watchers) < MaxTasks
    /\ SetWs(listen_websocket(Ws))
    /\ WsFrame

\* ElectroluxCoordinator.launch_websocket_renewal_task: no renewal task exists
\* yet, one is created and starts with its sleep
LaunchRenewal ==
    /\ close_pc = "idle"
    /\ watchers # <<>>
    /\ renew_task = "none"
    /\ SetWs([Ws EXCEPT !.renew_task = "task", !.renew_pc = "sleep"])
    /\ WsFrame

\* a watcher task runs ElectroluxApiClient.watch_for_appliance_state_updates:
\* listeners are added and the event stream task is created
WatcherRun ==
    \E id \in DOMAIN watchers :
        /\ watchers[id] = "pending"
        /\ id \notin watcher_cancel
        /\ Len(streams) < MaxTasks
        /\ SetWs([Ws EXCEPT !.watchers[id] = "done",
                            !.listeners = @ + 1,
                            !.streams = Append(@, "running"),
                            !.api_sse_task = Len(streams) + 1])
        /\ WsFrame

\* a cancelled watcher task ends before it has run
WatcherCancelled ==
    \E id \in watcher_cancel :
        /\ SetWs([Ws EXCEPT !.watchers[id] = "cancelled", !.watcher_cancel = @ \ {id}])
        /\ WsFrame

\* a cancelled event stream task ends
StreamCancelled ==
    \E id \in stream_cancel :
        /\ SetWs([Ws EXCEPT !.streams[id] = "cancelled", !.stream_cancel = @ \ {id}])
        /\ WsFrame

\* the payload shapes the event stream hands over for one appliance: the
\* single-field patch {property: timeToEnd, value: v} and the partial tree
\* {timeToEnd: v}
PushShapes == {"patch", "full"}

event_data(shape, v) ==
    IF shape = "patch"
    THEN ("property" :> Str("timeToEnd")) @@ ("value" :> v)
    ELSE "timeToEnd" :> v

\* a running event stream calls incoming_data with {appliance: event_data}:
\* Appliance.update_reported_data, then the scan for a deferred update
PushEvent ==
    \E id \in DOMAIN streams, shape \in PushShapes, v \in ScalarVals :
        LET data == event_data(shape, v)
        IN  /\ streams[id] = "running"
            /\ id \notin stream_cancel
            /\ state' = IF shape = "patch"
                        THEN PatchReported(state, data["property"].s, data["value"])
                        ELSE MergeReported(catalog, state, data)
            /\ appliance_status' = "state"
            /\ prev' = state
            /\ last' = IF shape = "patch"
                       THEN [kind |-> "patch", property |-> data["property"].s,
                             value |-> data["value"], payload |-> EmptyMap]
                       ELSE [kind |-> "full", property |-> "", value |-> NoneV,
                             payload |-> data]
            /\ IF do_deferred(data)
               THEN /\ Len(deferred) < MaxDeferred
                    /\ SetWs([Ws EXCEPT !.deferred = Append(@, "sleeping"),
                                        !.deferred_tasks = @ \cup {Len(deferred) + 1}])
               ELSE UNCHANGED wsVars
            /\ UNCHANGED <<catalog, classVars, writeVars, uidVars, laterVars>>

\* deferred_update: the sleep is over, the appliance state is requested
DeferredWake ==
    \E id \in DOMAIN deferred :
        /\ deferred[id] = "sleeping"
        /\ id \notin deferred_cancel
        /\ SetWs([Ws EXCEPT !.deferred[id] = "fetching"])
        /\ WsFrame

\* deferred_update: the appliance state has come, Appliance.update; the done
\* callback discards the task
DeferredUpdate ==
    \E id \in DOMAIN deferred :
        LET rep == "timeToEnd" :> S(0)
        IN  /\ deferred[id] = "fetching"
            /\ id \notin deferred_cancel
            /\ state' = ApplianceUpdateState(catalog, get_appliance_state(rep))
            /\ appliance_status' = "state"
            /\ prev' = state
            /\ last' = [kind |-> "poll", property |-> "", value |-> NoneV, payload |-> rep]
            /\ SetWs([Ws EXCEPT !.deferred[id] = "done", !.deferred_tasks = @ \ {id}])
            /\ UNCHANGED <<catalog, classVars, writeVars, uidVars, laterVars>>

\* a cancelled deferred_update task ends; the done callback discards it
DeferredCancelled ==
    \E id \in deferred_cancel :
        /\ SetWs([Ws EXCEPT !.deferred[id] = "cancelled", !.deferred_cancel = @ \ {id},
                            !.deferred_tasks = @ \ {id}])
        /\ WsFrame

\* renew_websocket: the sleep is over; the watcher task is cancelled and awaited
\* when it is not done, then disconnect_websocket is called
RenewWake ==
    /\ renew_pc = "sleep"
    /\ ~renew_cancel
    /\ Len(watchers) < MaxTasks
    /\ IF SseNotDone(Ws)
       THEN SetWs([cancel_watcher(Ws, sse_task) EXCEPT !.renew_pc = "await_sse",
                                                      !.renew_await = sse_task])
       ELSE SetWs(renew_disconnect(Ws))
    /\ WsFrame

\* renew_websocket: the sleep raises CancelledError, the task ends
RenewCancelled ==
    /\ renew_pc = "sleep"
    /\ renew_cancel
    /\ SetWs([Ws EXCEPT !.renew_pc = "done", !.renew_cancel = FALSE])
    /\ WsFrame

\* renew_websocket: the awaited watcher task is done; CancelledError is passed
\* over, self._sse_task = None, disconnect_websocket is called
RenewSseDone ==
    /\ renew_pc = "await_sse"
    /\ watchers[renew_await] # "pending"
    /\ Len(watchers) < MaxTasks
    /\ SetWs(renew_disconnect([Ws EXCEPT !.sse_task = 0, !.renew_await = 0]))
    /\ WsFrame

\* disconnect_websocket in renew_websocket: the awaited stream task is done;
\* CancelledError is passed over, then listen_websocket and the next sleep
RenewStreamDone ==
    /\ renew_pc = "await_stream"
    /\ streams[renew_await] = "cancelled"
    /\ Len(watchers) < MaxTasks
    /\ SetWs(renew_after_stream(Ws))
    /\ WsFrame

\* async_unload_entry -> close_websocket, up to its first suspension
CloseWebsocket ==
    /\ close_pc = "idle"
    /\ LET w == IF renew_task # "none"
                THEN [cancel_renew(Ws) EXCEPT !.renew_task = "none"]
                ELSE Ws
       IN  IF SseNotDone(w)
           THEN SetWs([cancel_watcher(w, w.sse_task) EXCEPT !.close_pc = "await_sse",
                                                          !.close_await = w.sse_task])
           ELSE SetWs(close_after_sse(w))
    /\ WsFrame

\* close_websocket: the awaited watcher task is done; self._sse_task = None, the
\* deferred tasks are cancelled, disconnect_websocket is called
CloseSseDone ==
    /\ close_pc = "await_sse"
    /\ watchers[close_await] # "pending"
    /\ SetWs(close_after_sse([Ws EXCEPT !.sse_task = 0, !.close_await = 0]))
    /\ WsFrame

\* disconnect_websocket in close_websocket: the awaited stream task is done
CloseDisconnectDone ==
    /\ close_pc = "await_disconnect"
    /\ streams[close_await] = "cancelled"
    /\ SetWs([Ws EXCEPT !.api_sse_task = 0, !.close_pc = "returned", !.close_await = 0])
    /\ WsFrame

NextWS ==
    \/ ListenWebsocket
    \/ ListenWebsocketAgain
    \/ LaunchRenewal
    \/ WatcherRun
    \/ WatcherCancelled
    \/ StreamCancelled
    \/ PushEvent
    \/ DeferredWake
    \/ DeferredUpdate
    \/ DeferredCancelled
    \/ RenewWake
    \/ RenewCancelled
    \/ RenewSseDone
    \/ RenewStreamDone
    \/ CloseWebsocket
    \/ CloseSseDone
    \/ CloseDisconnectDone

SpecWS == InitWS /\ [][NextWS]_vars

-----------------------------------------------------------------------------
(* Properties of the coordinator's tasks.                                  *)

\* C2: once close_websocket has returned, the renewal task, every watcher and
\* event stream task and every deferred task is finished or has its
\* cancellation under way, none runs on or is started anew, and no deferred
\* task is tracked.
C2_TeardownLeavesNoBackgroundWork ==
    close_pc = "returned" =>
        /\ ~(renew_pc = "sleep" /\ ~renew_cancel)
        /\ \A id \in DOMAIN watchers : watchers[id] = "pending" => id \in watcher_cancel
        /\ \A id \in DOMAIN streams : streams[id] = "running" => id \in stream_cancel
        /\ \A id \in DOMAIN deferred : id \in Alive(deferred) => id \in deferred_cancel
        /\ deferred_tasks = {}

\* the value a push event reports for timeToEnd, Absent when it reports none
ReportedTimeToEnd(event) ==
    IF event.kind = "patch"
    THEN IF event.property = "timeToEnd" THEN event.value ELSE Absent
    ELSE IF "timeToEnd" \in DOMAIN event.payload THEN event.payload["timeToEnd"]
         ELSE Absent

NearlyOver(v) == v.t = "s" /\ 0 < v.v /\ v.v <= 1

\* the step is a call of incoming_data
PushStep ==
    /\ last'.kind \in PushShapes
    /\ last' # last \/ state' # state \/ Len(deferred') # Len(deferred)

\* the step is a deferred task applying the state it fetched
DeferredStep ==
    \E id \in DOMAIN deferred : deferred[id] = "fetching" /\ deferred'[id] = "done"

Scheduled ==
    /\ Len(deferred') = Len(deferred) + 1
    /\ deferred'[Len(deferred')] = "sleeping"
    /\ Len(deferred') \in deferred_tasks'

\* C18: a push event that reports timeToEnd with 0 < v <= 1, as a single-field
\* patch or within a partial tree, makes incoming_data schedule a deferred
\* re-poll; a push event with any other value schedules none; a deferred task
\* that fires applies the state it fetched for the appliance and notifies the
\* listeners.
C18_DeferredRepollScheduling ==
    [][/\ PushStep => (NearlyOver(ReportedTimeToEnd(last')) <=> Scheduled)
       /\ DeferredStep =>
              /\ last'.kind = "poll"
              /\ state' = ApplianceUpdateState(catalog, get_appliance_state(last'.payload))
              /\ appliance_status' = "state"]_vars

\* the same for the events that carry a partial tree
C18_PartialTreeScheduling ==
    [][(PushStep /\ last'.kind = "full")
           => (NearlyOver(ReportedTimeToEnd(last')) <=> Scheduled)]_vars

\* a single-field patch with timeToEnd = 1 has come and no deferred task exists
C18_PatchNotScheduled ==
    /\ last.kind = "patch"
    /\ NearlyOver(ReportedTimeToEnd(last))
    /\ deferred = <<>>

\* the event stream tasks that have not ended
ActiveStreams == {id \in DOMAIN streams : streams[id] = "running"}

C19_OneEventStream == Cardinality(ActiveStreams) <= 1

C19_OneRegistration == listeners <= 1

\* C19: over listen_websocket at setup, the renewal cycles and further calls of
\* listen_websocket, at no moment are two event streams active, and at no
\* moment is the appliance's callback registered twice.
C19_AtMostOneSubscription == C19_OneEventStream /\ C19_OneRegistration

\* two event streams run side by side
C19_TwoStreams == Cardinality(ActiveStreams) = 2

-----------------------------------------------------------------------------
(* ElectroluxEntity.unique_id and the entity registry.                      *)

\* hashlib.sha256(api_key.encode()).hexdigest()[:16] of the keys of ApiKeys
Sha256Prefix(api_key) ==
    CASE api_key = "k1" -> "6ab9f1eb8f7d3388"
      [] api_key = "k2" -> "015f7e6bc5aeaf48"

\* the attribute as the legacy identifier holds it
legacy_normalized(entity_attr) ==
    LET l == lower(entity_attr)
    IN  IF startswith(l, "fppn_") THEN strip(replace(l, "fppn_", ""), "_")
        ELSE IF startswith(l, "fppn") THEN strip(replace(l, "fppn", ""), "_")
        ELSE l

\* the attribute as the hash-based identifier holds it
hash_normalized(entity_attr) ==
    LET l == lower(entity_attr)
    IN  IF startswith(l, "fppn_") THEN strip(replace(l, "fppn_", ""), "_")
        ELSE IF startswith(l, "fppn") THEN strip(replace(l, "fppn", ""), "_")
        ELSE strip(l, "_")

\* self.entity_source or 'root'
source_or_root(entity_source) == IF entity_source = "" THEN "root" ELSE entity_source

old_unique_id(entry, entity) ==
    entry.entry_id \o "-" \o legacy_normalized(entity.entity_attr) \o "-"
        \o source_or_root(entity.entity_source) \o "-" \o entity.pnc_id

new_unique_id(entry, entity) ==
    (IF entry.api_key # "" THEN Sha256Prefix(entry.api_key) ELSE "unknown")
        \o "-" \o hash_normalized(entity.entity_attr) \o "-"
        \o source_or_root(entity.entity_source) \o "-" \o entity.pnc_id

\* unique_id taking the legacy identifier from the entry of any config entry
unique_id_any_entry(reg, entry, entity) ==
    IF \E entity_entry \in reg : entity_entry.unique_id = old_unique_id(entry, entity)
    THEN old_unique_id(entry, entity)
    ELSE new_unique_id(entry, entity)

\* ElectroluxEntity.unique_id
unique_id(reg, entry, entity) ==
    IF \E entity_entry \in reg :
           /\ entity_entry.config_entry_id = entry.entry_id
           /\ entity_entry.unique_id = old_unique_id(entry, entity)
    THEN old_unique_id(entry, entity)
    ELSE new_unique_id(entry, entity)

\* ---- inputs ----

UidAttrs == {"fPPN_TargetTemp", "fppnMode", "_x_", "targetTemp"}

UidSources == {"", "userSelections"}

ApiKeys == {"", "k1", "k2"}

UidEntity(attr, source) == [entity_attr |-> attr, entity_source |-> source, pnc_id |-> "A1"]

ConfigEntry(key) == [entry_id |-> "e1", api_key |-> key]

RegistryEntry(config_entry_id, id) == [config_entry_id |-> config_entry_id, unique_id |-> id]

\* registry entries that matter to the entity: its legacy and hash identifiers
\* under its own config entry, its legacy identifier under another config entry,
\* and another entity of its config entry
RegistryUniverse(entry, entity) ==
    {RegistryEntry("e1", old_unique_id(entry, entity)),
     RegistryEntry("e2", old_unique_id(entry, entity)),
     RegistryEntry("e1", new_unique_id(entry, entity)),
     RegistryEntry("e1", "e1-doorstate-root-A1")}

InitUid ==
    /\ StateIdle
    /\ ClassifyIdle
    /\ WriteIdle
    /\ WsIdle
    /\ LaterIdle
    /\ \E attr \in UidAttrs, source \in UidSources : uid_entity = UidEntity(attr, source)
    /\ \E key \in ApiKeys : uid_entry = ConfigEntry(key)
    /\ registry \in SUBSET RegistryUniverse(uid_entry, uid_entity)
    /\ uid_result = "unset"
    /\ uid_prev = "unset"

UidFrame == UNCHANGED <<stateVars, classVars, writeVars, wsVars, laterVars>>

\* an evaluation of the unique_id property
UniqueId ==
    /\ uid_result' = unique_id(registry, uid_entry, uid_entity)
    /\ uid_prev' = IF uid_result # "unset" THEN uid_result ELSE uid_prev
    /\ UNCHANGED <<uid_entity, uid_entry, registry>>
    /\ UidFrame

\* async_add_entities: the entity is registered under its unique_id
Register ==
    /\ uid_result # "unset"
    /\ registry' = registry \cup {RegistryEntry(uid_entry.entry_id, uid_result)}
    /\ UNCHANGED <<uid_entity, uid_entry, uid_result, uid_prev>>
    /\ UidFrame

\* a restart: the entity object is built anew from the same data
Restart ==
    /\ uid_result # "unset"
    /\ uid_result' = "unset"
    /\ uid_prev' = uid_result
    /\ UNCHANGED <<uid_entity, uid_entry, registry>>
    /\ UidFrame

NextUid == UniqueId \/ Register \/ Restart

SpecUid == InitUid /\ [][NextUid]_vars

-----------------------------------------------------------------------------
(* Properties of unique ids.                                               *)

LegacyRegistered ==
    RegistryEntry(uid_entry.entry_id, old_unique_id(uid_entry, uid_entity)) \in registry

\* C6: unique_id is the legacy identifier whenever the registry holds an entry
\* of this config entry with that identifier and the hash-based identifier
\* otherwise, and every evaluation, also after a restart, gives the same
\* identifier as the one before.
C6_UniqueIdLegacyKeptAndStable ==
    uid_result # "unset" =>
        /\ LegacyRegistered => uid_result = old_unique_id(uid_entry, uid_entity)
        /\ ~LegacyRegistered => uid_result = new_unique_id(uid_entry, uid_entity)
        /\ uid_prev # "unset" => uid_result = uid_prev

C6_Witness ==
    /\ uid_entity.entity_attr = "fPPN_TargetTemp"
    /\ LegacyRegistered
    /\ RegistryEntry("e1", new_unique_id(uid_entry, uid_entity)) \in registry
    /\ uid_result = "e1-targettemp-root-A1"
    /\ uid_prev = uid_result

-----------------------------------------------------------------------------
(* const.py, api.py: the candidate list of an appliance (sources_list) and  *)
(* models.py, coordinator.py: the setup of an appliance.                    *)

\* The patterns of const.py are sequences of tokens: a literal, ".*" or ".+".
\* A leading "^" changes nothing under re.match and is left out.
Lit(s) == [k |-> "lit", s |-> s]

AnyStar == [k |-> "star"]

AnyPlus == [k |-> "plus"]

\* re.match(pattern, s): the pattern matches a prefix of s
RECURSIVE re_match(_, _)
re_match(pattern, s) ==
    IF pattern = <<>> THEN TRUE
    ELSE LET tok == Head(pattern)
             rest(n) == SubSeq(s, n + 1, Len(s))
         IN  CASE tok.k = "lit" ->
                    startswith(s, tok.s) /\ re_match(Tail(pattern), rest(Len(tok.s)))
               [] tok.k = "star" ->
                    \E n \in 0..Len(s) : re_match(Tail(pattern), rest(n))
               [] tok.k = "plus" ->
                    \E n \in 1..Len(s) : re_match(Tail(pattern), rest(n))

ATTRIBUTES_BLACKLIST ==
    << <<Lit("fCMiscellaneous"), AnyPlus>>,
       <<Lit("fcOptisenseLoadWeight"), AnyStar>>,
       <<Lit("applianceCareAndMaintenance"), AnyStar>>,
       <<Lit("applianceMainBoardSwVersion")>>,
       <<Lit("coolingValveState")>>,
       <<Lit("networkInterface")>>,
       <<Lit("temperatureRepresentation")>> >>

ATTRIBUTES_WHITELIST ==
    << <<AnyStar, Lit("waterUsage")>>,
       <<AnyStar, Lit("tankAReserve")>>,
       <<AnyStar, Lit("tankBReserve")>> >>

STATIC_ATTRIBUTES ==
    <<"connectivityState", "networkInterface/linkQualityIndicator", "applianceMode">>

\* variant of keep_source that does not look at the whitelist
keep_source_blacklist_only(source) ==
    ~\E i \in DOMAIN ATTRIBUTES_BLACKLIST : re_match(ATTRIBUTES_BLACKLIST[i], source)

\* keep_source of sources_list: the first blacklist pattern that matches
\* decides, and it keeps the source when some whitelist pattern matches
keep_source(source) ==
    IF \E i \in DOMAIN ATTRIBUTES_BLACKLIST : re_match(ATTRIBUTES_BLACKLIST[i], source)
    THEN \E j \in DOMAIN ATTRIBUTES_WHITELIST : re_match(ATTRIBUTES_WHITELIST[j], source)
    ELSE TRUE

\* the order in which the keys of a capabilities payload are iterated
KeyOrder ==
    <<"mode", "userSelections", "networkInterface", "fCMiscellaneous",
      "fCMiscellaneousState", "applianceCareAndMaintenance_tankAReserve",
      "coolingValveStateTarget", "EWX_mode", "programUID", "linkQualityIndicator",
      "waterUsage">>

\* list(m.keys())
KeysOf(m) == SelectSeq(KeyOrder, LAMBDA k : k \in DOMAIN m)

\* the children of a kept key that sources_list appends
RECURSIVE SubSources(_, _, _)
SubSources(key, value, sub_keys) ==
    IF sub_keys = <<>> THEN <<>>
    ELSE LET sub_key == Head(sub_keys)
             sub_value == value[sub_key]
         IN  (IF sub_value.t = "d" /\ "access" \in DOMAIN sub_value.m
                    /\ "type" \in DOMAIN sub_value.m
              THEN <<key \o "/" \o sub_key>> ELSE <<>>)
             \o SubSources(key, value, Tail(sub_keys))

\* the second loop of sources_list over the keys of the payload
RECURSIVE AppendedSources(_, _)
AppendedSources(caps, keys) ==
    IF keys = <<>> THEN <<>>
    ELSE LET key == Head(keys)
             value == caps[key]
         IN  (IF ~keep_source(key) THEN <<>>
              ELSE IF value.t = "d" THEN SubSources(key, value.m, KeysOf(value.m))
              ELSE IF value.t = "str" /\ Contains(value.s, "access")
                        /\ Contains(value.s, "type")
              THEN <<key>> ELSE <<>>)
             \o AppendedSources(caps, Tail(keys))

\* a Python list
L(items) == [t |-> "l", items |-> items]

\* ElectroluxLibraryEntity.sources_list; caps is D(m) or NoneV
sources_list(caps) ==
    IF caps = NoneV THEN NoneV
    ELSE L(SelectSeq(KeysOf(caps.m), keep_source)
           \o AppendedSources(caps.m, KeysOf(caps.m)))

\* Appliance.get_state
get_state(reported, name) ==
    LET result == WalkKeys(D(reported), split(name, "/"))
    IN  IF result.t = "d" THEN result ELSE NoneV

\* the setdefault walk of Appliance.setup that stores a catalog capability
RECURSIVE InjectCapability(_, _, _)
InjectCapability(node, keys, v) ==
    IF Len(keys) = 1 THEN D(Put(node.m, Head(keys), v))
    ELSE LET child == IF Head(keys) \in DOMAIN node.m THEN node.m[Head(keys)]
                      ELSE D(EmptyMap)
         IN  D(Put(node.m, Head(keys), InjectCapability(child, Tail(keys), v)))

\* the loop of Appliance.setup over STATIC_ATTRIBUTES; storing the catalog
\* capability raises when data.capabilities is None
RECURSIVE StaticLoop(_, _, _, _, _)
StaticLoop(names, caps, cat, reported, acc) ==
    IF names = <<>> THEN [raised |-> FALSE, entities |-> acc, caps |-> caps]
    ELSE LET name == Head(names)
         IN  IF get_state(reported, name) = NoneV \/ name \notin DOMAIN cat
             THEN StaticLoop(Tail(names), caps, cat, reported, acc)
             ELSE CHOOSE out \in
                    { IF r.raised \/ caps = NoneV
                      THEN [raised |-> TRUE, entities |-> {}, caps |-> r.caps]
                      ELSE StaticLoop(Tail(names),
                                      InjectCapability(r.caps, split(name, "/"),
                                                       cat[name].capability_info),
                                      cat, reported, acc \cup r.entities) :
                      r \in {get_entity(caps, name, cat[name])} } : TRUE

\* the loop of Appliance.setup over the candidate list
RECURSIVE CapabilityLoop(_, _, _, _)
CapabilityLoop(names, caps, cat, acc) ==
    IF names = <<>> THEN [raised |-> FALSE, entities |-> acc, caps |-> caps]
    ELSE CHOOSE out \in
            { IF r.raised THEN [raised |-> TRUE, entities |-> {}, caps |-> r.caps]
              ELSE CapabilityLoop(Tail(names), r.caps, cat, acc \cup r.entities) :
              r \in {get_entity(caps, Head(names), Get(cat, Head(names)))} } : TRUE

\* Appliance.setup: raised is TRUE when an exception leaves it, and then
\* Appliance.entities is still the empty list
ApplianceSetupResult(caps, cat, reported) ==
    LET capabilities_names == sources_list(caps)
    IN  CHOOSE out \in
            { IF static.raised THEN static
              ELSE IF capabilities_names # NoneV /\ capabilities_names.items # <<>>
              THEN CapabilityLoop(capabilities_names.items, static.caps, cat,
                                  static.entities)
              ELSE static :
              static \in {StaticLoop(STATIC_ATTRIBUTES, caps, cat, reported, {})} } : TRUE

\* ---- input domains of the setup machine ----

SuSelect == Descriptor(Str("string"), Str("readwrite"), ValuesOf({"COOL", "ECO"}), Absent, Absent)

SuSensor == Descriptor(Str("string"), Str("read"), Absent, Absent, Absent)

SuNoType == Descriptor(Absent, Str("read"), Absent, Absent, Absent)

SuButton == Descriptor(Str("string"), Str("write"), ValuesOf({"ON", "OFF"}), Absent, Absent)

\* a child that is no descriptor
SuPlain == D("step" :> S(1))

\* keys that the blacklist and the whitelist are about, with a value each
SuListedKeys ==
    { EmptyMap,
      "networkInterface" :> D("linkQualityIndicator" :> SuSensor),
      "fCMiscellaneous" :> SuSensor,
      "fCMiscellaneousState" :> D("waterUsage" :> SuSensor),
      "applianceCareAndMaintenance_tankAReserve" :> SuSensor,
      "coolingValveStateTarget" :> SuSensor }

SuCapabilities ==
    { NoneV } \cup
    { D(Opt("mode", a) @@ Opt("userSelections", b) @@ c) :
        a \in {Absent, SuSelect, SuSensor, SuNoType, SuButton},
        b \in {Absent, D("EWX_mode" :> SuSelect), D("EWX_mode" :> SuNoType),
               D("programUID" :> SuPlain)},
        c \in SuListedKeys }

SuCatalogs ==
    { EmptyMap,
      "mode" :> CatalogItem(Descriptor(Str("string"), Str("readwrite"), Absent, Absent,
                                       Absent), NoneV, Str(TEXT)),
      "mode" :> CatalogItem(SuSensor, DeviceClass("sensor", "enum"), NoneV),
      "applianceMode" :> CatalogItem(SuSensor, DeviceClass("sensor", "enum"), NoneV) }

\* reported states: a static attribute is absent, a scalar, or a mapping
SuReported(cat) ==
    IF "applianceMode" \in DOMAIN cat
    THEN { EmptyMap, "applianceMode" :> Str("COOL"),
           "applianceMode" :> D("value" :> Str("COOL")) }
    ELSE { EmptyMap }

\* what the API calls of setup_entities return: all of them, no appliances
\* list, or all but the capabilities
SuFetches == {"ok", "no_list", "no_capabilities"}

\* ---- the setup machine: one appliance is set up ----

SetupFrame == UNCHANGED <<stateVars, classVars, writeVars, wsVars, uidVars, pollVars, boolVars, mergeVars, sharedVars, readVars, keyVars, numberVars, cycleVars, pairVars, switchVars>>

InitSetup ==
    /\ StateIdle
    /\ ClassifyIdle
    /\ WriteIdle
    /\ WsIdle
    /\ UidIdle
    /\ PollIdle
    /\ BoolIdle
    /\ MergeIdle
    /\ SharedIdle
    /\ ReadIdle
    /\ KeyIdle
    /\ NumberIdle
    /\ CycleIdle
    /\ PairIdle
    /\ SwitchIdle
    /\ su_capabilities \in SuCapabilities
    /\ su_catalog \in SuCatalogs
    /\ su_reported \in SuReported(su_catalog)
    /\ su_pc = "input"
    /\ su_sources = NoneV
    /\ su_entities = {}
    /\ su_result = [status |-> "unset", cause |-> ""]
    /\ su_data = NoneV

\* ElectroluxLibraryEntity.sources_list()
SourcesList ==
    /\ su_pc = "input"
    /\ su_sources' = sources_list(su_capabilities)
    /\ su_pc' = "listed"
    /\ UNCHANGED <<su_capabilities, su_catalog, su_reported, su_entities, su_result, su_data>>
    /\ SetupFrame

\* Appliance.setup(data)
ApplianceSetup ==
    /\ su_pc \in {"input", "listed"}
    /\ LET r == ApplianceSetupResult(su_capabilities, su_catalog, su_reported)
       IN  /\ su_entities' = r.entities
           /\ su_result' = [status |-> IF r.raised THEN "raised" ELSE "ok",
                            cause |-> ""]
           /\ su_data' = r.caps
    /\ su_sources' = sources_list(su_capabilities)
    /\ su_pc' = "done"
    /\ UNCHANGED <<su_capabilities, su_catalog, su_reported>>
    /\ SetupFrame

\* ElectroluxCoordinator.setup_entities() for an account with this appliance
SetupEntities ==
    /\ su_pc \in {"input", "listed"}
    /\ \E fetch \in SuFetches :
        LET caps == IF fetch = "no_capabilities" \/ su_capabilities = NoneV
                    THEN D(EmptyMap) ELSE su_capabilities
            r == ApplianceSetupResult(caps, su_catalog, su_reported)
        IN  /\ su_entities' = IF fetch = "no_list" THEN {} ELSE r.entities
            /\ su_result' =
                    IF fetch = "no_list"
                    THEN [status |-> "UpdateFailed", cause |-> "ConfigEntryNotReady"]
                    ELSE IF r.raised
                    THEN [status |-> "UpdateFailed", cause |-> "ValueError"]
                    ELSE [status |-> "ok", cause |-> ""]
            /\ su_sources' = IF fetch = "no_list" THEN su_sources ELSE sources_list(caps)
            /\ su_data' = IF fetch = "no_list" THEN su_data ELSE r.caps
            /\ su_capabilities' = IF fetch = "no_list" THEN su_capabilities ELSE caps
    /\ su_pc' = "done"
    /\ UNCHANGED <<su_catalog, su_reported>>
    /\ SetupFrame

NextSetup == SourcesList \/ ApplianceSetup \/ SetupEntities

SpecSetup == InitSetup /\ [][NextSetup]_vars

-----------------------------------------------------------------------------
(* Properties of the setup of an appliance.                                 *)

\* the entities get_entity derives for the i-th candidate of the appliance
CandidateEntities(i) ==
    get_entity(su_capabilities, su_sources.items[i],
               Get(su_catalog, su_sources.items[i]))

\* the setup ran with the appliances list fetched
SetupRan == su_pc = "done" /\ su_result.cause # "ConfigEntryNotReady"

\* the candidates sources_list returned
Listed ==
    IF su_sources = NoneV THEN {}
    ELSE {su_sources.items[i] : i \in DOMAIN su_sources.items}

\* C11: a candidate attribute that cannot be resolved or maps to no supported
\* entity kind is skipped: Appliance.setup and setup_entities do not fail because
\* of it, and the entities of every other candidate are still produced.
C11_ClassificationGapsAreNotFatal ==
    SetupRan =>
        /\ su_result.status = "ok"
        /\ su_sources # NoneV => \A i \in DOMAIN su_sources.items :
              ~CandidateEntities(i).raised
                  => CandidateEntities(i).entities \subseteq su_entities

\* a plain gap is skipped: the candidate without a type yields nothing and the
\* other candidate yields its entity
C11_GapSkipped ==
    /\ SetupRan
    /\ su_result.status = "ok"
    /\ su_entities # {}
    /\ su_sources # NoneV
    /\ \E i \in DOMAIN su_sources.items : CandidateEntities(i).entities = {}

\* the source matches a blacklist pattern and no whitelist pattern
Blacklisted(source) ==
    /\ \E i \in DOMAIN ATTRIBUTES_BLACKLIST : re_match(ATTRIBUTES_BLACKLIST[i], source)
    /\ ~\E j \in DOMAIN ATTRIBUTES_WHITELIST : re_match(ATTRIBUTES_WHITELIST[j], source)

\* the children of a top-level key that are mappings with access and type
DescriptorChildren(key) ==
    IF su_capabilities.m[key].t # "d" THEN {}
    ELSE { child \in DOMAIN su_capabilities.m[key].m :
              LET sub_value == su_capabilities.m[key].m[child]
              IN  /\ sub_value.t = "d"
                  /\ "access" \in DOMAIN sub_value.m
                  /\ "type" \in DOMAIN sub_value.m }

\* C16: sources_list returns None when capabilities is None; otherwise a
\* top-level key is listed iff it matches no blacklist pattern or matches some
\* whitelist pattern; every child of a kept key that is a mapping with access
\* and type is listed as parent/child; and nothing of a blacklisted,
\* non-whitelisted parent is listed.
C16_SourcesListFilter ==
    su_pc \in {"listed", "done"} /\ su_result.cause # "ConfigEntryNotReady" =>
        IF su_capabilities = NoneV THEN su_sources = NoneV
        ELSE /\ su_sources # NoneV
             /\ \A key \in DOMAIN su_capabilities.m :
                    /\ key \in Listed <=> ~Blacklisted(key)
                    /\ \A child \in DescriptorChildren(key) :
                          (key \o "/" \o child) \in Listed <=> ~Blacklisted(key)
             /\ \A source \in Listed :
                    ~Blacklisted(IF Contains(source, "/") THEN split(source, "/")[1]
                                 ELSE source)

\* a key that matches the blacklist and the whitelist is listed next to the
\* child of a kept parent
C16_Witness ==
    /\ su_pc = "listed"
    /\ "applianceCareAndMaintenance_tankAReserve" \in Listed
    /\ "userSelections/EWX_mode" \in Listed
    /\ "userSelections" \in Listed

\* the children of a blacklisted parent are left out with it
C16_BlacklistedParentDropped ==
    /\ su_pc = "listed"
    /\ su_capabilities # NoneV
    /\ "networkInterface" \in DOMAIN su_capabilities.m
    /\ "networkInterface/linkQualityIndicator" \notin Listed

\* the static attributes the catalog of the appliance has an entry for
CataloguedStatics ==
    {STATIC_ATTRIBUTES[i] : i \in DOMAIN STATIC_ATTRIBUTES} \cap DOMAIN su_catalog

\* the reported state holds the attribute, with whatever value
ReportedHas(name) == WalkKeys(D(su_reported), split(name, "/")) # NoneV

\* the entities of su_entities that belong to the attribute
EntitiesOf(name) ==
    {e \in su_entities : e.entity_attr = get_entity_attr(name)
                            /\ e.entity_source = get_category(name)}

\* C23: for a static attribute with a catalog entry, Appliance.setup stores the
\* catalog's capability_info in the capability tree and derives the entity when
\* the reported state holds the attribute, whatever its value; when the
\* reported state does not hold it the capability tree is left as it was and
\* no entity is derived for it.
C23_StaticAttributeInjection ==
    (SetupRan /\ su_result.status = "ok") =>
        \A name \in CataloguedStatics :
            IF ReportedHas(name)
            THEN /\ get_capability(su_data, name) = su_catalog[name].capability_info
                 /\ EntitiesOf(name) # {}
            ELSE /\ get_capability(su_data, name) = get_capability(su_capabilities, name)
                 /\ EntitiesOf(name) = {}

\* the same for the values that are mappings, and for the absent attribute
C23_MappingValueInjected ==
    (SetupRan /\ su_result.status = "ok") =>
        \A name \in CataloguedStatics :
            IF get_state(su_reported, name) # NoneV
            THEN /\ get_capability(su_data, name) = su_catalog[name].capability_info
                 /\ EntitiesOf(name) # {}
            ELSE ~ReportedHas(name) =>
                 /\ get_capability(su_data, name) = get_capability(su_capabilities, name)
                 /\ EntitiesOf(name) = {}

\* applianceMode is reported as a plain string and the setup derived nothing for it
C23_ScalarValueSkipped ==
    /\ SetupRan
    /\ su_result.status = "ok"
    /\ "applianceMode" \in CataloguedStatics
    /\ Get(su_reported, "applianceMode") = Str("COOL")
    /\ EntitiesOf("applianceMode") = {}

\* applianceMode is reported as a mapping and its sensor was derived
C23_MappingValueDerived ==
    /\ SetupRan
    /\ "applianceMode" \in CataloguedStatics
    /\ get_state(su_reported, "applianceMode") # NoneV
    /\ EntitiesOf("applianceMode") # {}

-----------------------------------------------------------------------------
(* coordinator.py: the poll cycle, ElectroluxCoordinator._async_update_data. *)

MaxPolls == 2

\* the appliances of the account, in the order of Appliances.get_appliances()
PollAppliances == <<"A1", "A2">>

\* reported trees a fetch may return
PollPayloads == { EmptyMap, "a" :> S(0), "a" :> S(1) }

PollCatalogs ==
    { EmptyMap, "K" :> [access |-> "constant", default |-> S(ConstDefault)] }

\* messages of the exceptions a fetch may raise
PollMessages ==
    { "401 Client Error", "Unauthorized", "Invalid TOKEN", "Authentication required",
      "Connection timeout", "API Error", "Forbidden" }

\* the state a fetch of appliance id returns around the reported tree rep
FetchedState(id, rep) == Put(get_appliance_state(rep), "applianceId", Str(id))

\* variant of poll_error that compares the message as it is, without lower()
poll_error_case_sensitive(message) ==
    IF \E keyword \in {"401", "unauthorized", "auth", "token"} : Contains(message, keyword)
    THEN "ConfigEntryAuthFailed"
    ELSE "UpdateFailed"

\* the except branch of _async_update_data: the exception raised for a message
poll_error(message) ==
    IF \E keyword \in {"401", "unauthorized", "auth", "token"} :
            Contains(lower(message), keyword)
    THEN "ConfigEntryAuthFailed"
    ELSE "UpdateFailed"

PollFrame == UNCHANGED <<stateVars, classVars, writeVars, wsVars, uidVars, setupVars, boolVars, mergeVars, sharedVars, readVars, keyVars, numberVars, cycleVars, pairVars, switchVars>>

\* setup_entities built the appliances on a first fetched state each
InitPoll ==
    /\ StateIdle
    /\ ClassifyIdle
    /\ WriteIdle
    /\ WsIdle
    /\ UidIdle
    /\ SetupIdle
    /\ BoolIdle
    /\ MergeIdle
    /\ SharedIdle
    /\ ReadIdle
    /\ KeyIdle
    /\ NumberIdle
    /\ CycleIdle
    /\ PairIdle
    /\ SwitchIdle
    /\ pl_catalog \in PollCatalogs
    /\ pl_appliances = [i \in {PollAppliances[k] : k \in DOMAIN PollAppliances} |->
                            FetchedState(i, EmptyMap)]
    /\ pl_pc = 0
    /\ pl_calls = <<>>
    /\ pl_result = "none"
    /\ pl_polls = 0

\* _async_update_data is called and awaits the state of the first appliance
UpdateData ==
    /\ pl_pc = 0
    /\ pl_polls < MaxPolls
    /\ pl_polls' = pl_polls + 1
    /\ pl_pc' = 1
    /\ pl_calls' = <<>>
    /\ pl_result' = "none"
    /\ UNCHANGED <<pl_catalog, pl_appliances>>
    /\ PollFrame

\* the awaited get_appliance_state returns: appliance.update(appliance_status),
\* then the next appliance is fetched, or self.data is returned after the last
FetchReturns ==
    /\ pl_pc \in DOMAIN PollAppliances
    /\ \E rep \in PollPayloads :
        LET appliance_id == PollAppliances[pl_pc]
            fetched == FetchedState(appliance_id, rep)
        IN  /\ pl_appliances' =
                  [pl_appliances EXCEPT ![appliance_id] =
                        ApplianceUpdateState(pl_catalog, fetched)]
            /\ pl_calls' = pl_calls
                  \o <<[op |-> "fetch", id |-> appliance_id, out |-> D(fetched)],
                       [op |-> "update", id |-> appliance_id, out |-> D(fetched)]>>
    /\ IF pl_pc = Len(PollAppliances)
       THEN pl_pc' = 0 /\ pl_result' = "data"
       ELSE pl_pc' = pl_pc + 1 /\ UNCHANGED pl_result
    /\ UNCHANGED <<pl_catalog, pl_polls>>
    /\ PollFrame

\* the awaited get_appliance_state raises: the except branch
FetchFails ==
    /\ pl_pc \in DOMAIN PollAppliances
    /\ \E message \in PollMessages :
        /\ pl_calls' = Append(pl_calls, [op |-> "fetch", id |-> PollAppliances[pl_pc],
                                         out |-> Str(message)])
        /\ pl_result' = poll_error(message)
    /\ pl_pc' = 0
    /\ UNCHANGED <<pl_catalog, pl_appliances, pl_polls>>
    /\ PollFrame

NextPoll == UpdateData \/ FetchReturns \/ FetchFails

SpecPoll == InitPoll /\ [][NextPoll]_vars

-----------------------------------------------------------------------------
(* Properties of the poll cycle.                                            *)

\* the calls of the poll of the given kind
PollCalls(op) == SelectSeq(pl_calls, LAMBDA c : c.op = op)

\* C13: when every fetch succeeds, _async_update_data returns the coordinator
\* data after calling update exactly once on every appliance, in order, with the
\* state fetched for that appliance; when a fetch fails it raises
\* ConfigEntryAuthFailed if the lower-cased message contains 401, unauthorized,
\* auth or token, and UpdateFailed for any other message.
C13_PollUpdatesEachApplianceOnce ==
    /\ pl_result = "data" =>
          /\ Len(PollCalls("update")) = Len(PollAppliances)
          /\ \A k \in DOMAIN PollAppliances :
                /\ PollCalls("update")[k].id = PollAppliances[k]
                /\ PollCalls("fetch")[k].id = PollAppliances[k]
                /\ PollCalls("update")[k].out = PollCalls("fetch")[k].out
                /\ PollCalls("fetch")[k].out.t = "d"
    /\ pl_result \in {"ConfigEntryAuthFailed", "UpdateFailed"} =>
          LET failed == pl_calls[Len(pl_calls)]
              message == lower(failed.out.s)
          IN  /\ failed.op = "fetch"
              /\ failed.out.t = "str"
              /\ pl_result = "ConfigEntryAuthFailed"
                  <=> (\/ Contains(message, "401")
                       \/ Contains(message, "unauthorized")
                       \/ Contains(message, "auth")
                       \/ Contains(message, "token"))
    /\ (pl_pc = 0 /\ pl_polls > 0) => pl_result # "none"

\* the second poll returned the data after both appliances were updated, each
\* with a reported tree of its own
C13_Witness ==
    /\ pl_result = "data"
    /\ Len(PollCalls("update")) = 2
    /\ pl_polls = 2
    /\ reported_state(pl_appliances["A1"]) # reported_state(pl_appliances["A2"])

-----------------------------------------------------------------------------
(* util.py: string_to_boolean.                                              *)

on_values ==
    { "charging", "connected", "detected", "enabled", "home", "hot", "light",
      "locked", "locking", "motion", "moving", "occupied", "on", "open", "plugged",
      "power", "problem", "running", "smoke", "sound", "tampering", "true",
      "unsafe", "update available", "vibration", "wet", "yes" }

off_values ==
    { "away", "clear", "closed", "disabled", "disconnected", "dry", "false", "no",
      "no light", "no motion", "no power", "no problem", "no smoke", "no sound",
      "no tampering", "no vibration", "normal", "not charging", "not occupied",
      "not running", "off", "safe", "stopped", "unlocked", "unlocking", "unplugged",
      "up-to-date" }

\* the characters str.strip() and \s take for whitespace, as far as inputs go
Whitespace == {" ", "\t"}

\* str.strip()
RECURSIVE lstrip_ws(_)
lstrip_ws(s) == IF s # "" /\ Head(s) \in Whitespace THEN lstrip_ws(Tail(s)) ELSE s

RECURSIVE rstrip_ws(_)
rstrip_ws(s) ==
    IF s # "" /\ Chr(s, Len(s)) \in Whitespace
    THEN rstrip_ws(SubSeq(s, 1, Len(s) - 1)) ELSE s

\* re.sub(r"\s+", " ", s)
RECURSIVE collapse_ws(_)
collapse_ws(s) ==
    IF s = "" THEN ""
    ELSE IF Head(s) \in Whitespace THEN " " \o collapse_ws(lstrip_ws(s))
    ELSE Head(s) \o collapse_ws(Tail(s))

\* the normalisation of string_to_boolean
normalize_input(value) == collapse_ws(lower(rstrip_ws(lstrip_ws(replace(value, "_", " ")))))

\* string_to_boolean(value, fallback); value is Str(s) or NoneV
string_to_boolean(value, fallback) ==
    IF value = NoneV THEN NoneV
    ELSE IF normalize_input(value.s) \in on_values THEN B(TRUE)
    ELSE IF normalize_input(value.s) \in off_values THEN B(FALSE)
    ELSE IF fallback THEN value
    ELSE B(FALSE)

\* ---- input domains of the conversion machine ----

\* the word with underscores in place of its separators
Underscored(word) == replace(replace(word, " ", "_"), "-", "_")

\* spellings of a vocabulary word: letter case, surrounding whitespace,
\* repeated whitespace, underscores for separators
Spellings(word) ==
    { word, upper(word), Underscored(word), upper(Underscored(word)),
      " " \o word \o "\t ", replace(upper(word), " ", "  ") }

\* strings that spell no vocabulary word
UnknownInputs == { "", "maybe", "ONN", "not", "running late" }

\* [word, value]: the inputs of the conversion with the word they spell
BoolInputs ==
    UNION { { [word |-> w, value |-> Str(v)] : v \in Spellings(w) } :
              w \in on_values \cup off_values } \cup
    { [word |-> "", value |-> Str(v)] : v \in UnknownInputs } \cup
    { [word |-> "", value |-> NoneV] }

\* ---- the conversion machine: one call of string_to_boolean ----

BoolFrame == UNCHANGED <<stateVars, classVars, writeVars, wsVars, uidVars, setupVars, pollVars, mergeVars, sharedVars, readVars, keyVars, numberVars, cycleVars, pairVars, switchVars>>

InitBool ==
    /\ StateIdle
    /\ ClassifyIdle
    /\ WriteIdle
    /\ WsIdle
    /\ UidIdle
    /\ SetupIdle
    /\ PollIdle
    /\ MergeIdle
    /\ SharedIdle
    /\ ReadIdle
    /\ KeyIdle
    /\ NumberIdle
    /\ CycleIdle
    /\ PairIdle
    /\ SwitchIdle
    /\ \E in \in BoolInputs : sb_word = in.word /\ sb_value = in.value
    /\ sb_fallback \in BOOLEAN
    /\ sb_result = NoneV
    /\ sb_pc = "input"

\* string_to_boolean(value, fallback)
StringToBoolean ==
    /\ sb_pc = "input"
    /\ sb_result' = string_to_boolean(sb_value, sb_fallback)
    /\ sb_pc' = "done"
    /\ UNCHANGED <<sb_word, sb_value, sb_fallback>>
    /\ BoolFrame

NextBool == StringToBoolean

SpecBool == InitBool /\ [][NextBool]_vars

-----------------------------------------------------------------------------
(* Properties of string_to_boolean.                                         *)

\* C14: string_to_boolean returns True for every spelling of an 'on' word and
\* False for every spelling of an 'off' word, whatever the letter case, the
\* surrounding whitespace and the underscores in place of separators; None for
\* None; and for any other string the string itself when fallback is true,
\* False when it is false.
C14_StringToBooleanVocabulary ==
    sb_pc = "done" =>
        /\ sb_value = NoneV => sb_result = NoneV
        /\ sb_word \in on_values => sb_result = B(TRUE)
        /\ sb_word \in off_values => sb_result = B(FALSE)
        /\ (sb_value # NoneV /\ sb_word = "")
              => sb_result = IF sb_fallback THEN sb_value ELSE B(FALSE)

\* the underscore spelling of a two-word 'off' entry is converted to False
C14_UnderscoreSpellingConverted ==
    /\ sb_pc = "done"
    /\ sb_value = Str("NOT_RUNNING")
    /\ sb_result = B(FALSE)

-----------------------------------------------------------------------------
(* api.py: deep_merge_dicts on dict objects.  A dict is an object of the    *)
(* heap, a value of a dict is a number or a reference to a dict object, so  *)
(* that a change of an argument is visible.                                 *)

\* a reference to the dict object id
Ref(id) == [t |-> "ref", id |-> id]

\* the order in which the items of a dict are iterated
MergeKeyOrder == <<"a", "b", "x", "y", "z">>

ItemsOf(m) == SelectSeq(MergeKeyOrder, LAMBDA k : k \in DOMAIN m)

\* the value of the dict object id, followed through its references
RECURSIVE Deref(_, _)
Deref(heap, id) ==
    D([k \in DOMAIN heap[id] |->
          IF heap[id][k].t = "ref" THEN Deref(heap, heap[id][k].id) ELSE heap[id][k]])

\* variant of dict_copy: the same object instead of a copy
dict_alias(heap, id) == [heap |-> heap, id |-> id]

\* dict1.copy(): a new object with the items of the old one
dict_copy(heap, id) == [heap |-> Append(heap, heap[id]), id |-> Len(heap) + 1]

RECURSIVE api_deep_merge_dicts(_, _, _)
\* the loop of deep_merge_dicts over dict2.items()
RECURSIVE merge_items(_, _, _, _)
merge_items(heap, result, dict2, keys) ==
    IF keys = <<>> THEN [heap |-> heap, id |-> result]
    ELSE LET key == Head(keys)
             value == heap[dict2][key]
         IN  IF key \in DOMAIN heap[result] /\ heap[result][key].t = "ref"
                /\ value.t = "ref"
             THEN CHOOSE out \in
                    { merge_items([sub.heap EXCEPT ![result] = Put(@, key, Ref(sub.id))],
                                  result, dict2, Tail(keys)) :
                      sub \in {api_deep_merge_dicts(heap, heap[result][key].id, value.id)} } :
                    TRUE
             ELSE merge_items([heap EXCEPT ![result] = Put(@, key, value)],
                              result, dict2, Tail(keys))

\* deep_merge_dicts(dict1, dict2) of api.py: the heap it leaves and the object
\* it returns
api_deep_merge_dicts(heap, dict1, dict2) ==
    CHOOSE out \in
        { merge_items(copy.heap, copy.id, dict2, ItemsOf(heap[dict2])) :
          copy \in {dict_copy(heap, dict1)} } : TRUE

\* ---- input domains of the merge machine ----

\* nested dicts a value may be
MergeSubTrees ==
    { D(EmptyMap), D("x" :> S(1)), D("y" :> S(2)), D(("x" :> S(2)) @@ ("y" :> S(1))),
      D("x" :> D("z" :> S(1))), D("x" :> D("y" :> S(2))) }

\* the dicts handed to deep_merge_dicts
MergeTrees ==
    { Opt("a", a) @@ Opt("b", b) :
        a \in {Absent, S(1)} \cup MergeSubTrees, b \in {Absent, S(2)} \cup MergeSubTrees }

\* the heap after the dict m was built in it, and the object that is m
RECURSIVE StoreItems(_, _, _, _)
StoreItems(heap, m, keys, obj) ==
    IF keys = <<>> THEN [heap |-> Append(heap, obj), id |-> Len(heap) + 1]
    ELSE LET key == Head(keys)
         IN  IF m[key].t = "d"
             THEN CHOOSE out \in
                    { StoreItems(child.heap, m, Tail(keys), Put(obj, key, Ref(child.id))) :
                      child \in {StoreItems(heap, m[key].m, ItemsOf(m[key].m), EmptyMap)} } :
                    TRUE
             ELSE StoreItems(heap, m, Tail(keys), Put(obj, key, m[key]))

Store(heap, m) == StoreItems(heap, m, ItemsOf(m), EmptyMap)

\* ---- the merge machine: one call of deep_merge_dicts ----

MergeFrame == UNCHANGED <<stateVars, classVars, writeVars, wsVars, uidVars, setupVars, pollVars, boolVars, sharedVars, readVars, keyVars, numberVars, cycleVars, pairVars, switchVars>>

\* two dicts are built, or one dict is handed in as both arguments
InitMerge ==
    /\ StateIdle
    /\ ClassifyIdle
    /\ WriteIdle
    /\ WsIdle
    /\ UidIdle
    /\ SetupIdle
    /\ PollIdle
    /\ BoolIdle
    /\ SharedIdle
    /\ ReadIdle
    /\ KeyIdle
    /\ NumberIdle
    /\ CycleIdle
    /\ PairIdle
    /\ SwitchIdle
    /\ \E m1 \in MergeTrees, m2 \in MergeTrees :
        \E first \in {Store(<<>>, m1)} :
            \E second \in {Store(first.heap, m2)} :
                /\ dm_heap = IF m1 = m2 THEN first.heap ELSE second.heap
                /\ dm_dict1 = first.id
                /\ dm_dict2 = IF m1 = m2 THEN first.id ELSE second.id
    /\ dm_before = dm_heap
    /\ dm_result = 0

\* deep_merge_dicts(dict1, dict2)
DeepMerge ==
    /\ dm_result = 0
    /\ \E r \in {api_deep_merge_dicts(dm_heap, dm_dict1, dm_dict2)} :
        /\ dm_heap' = r.heap
        /\ dm_result' = r.id
    /\ UNCHANGED <<dm_before, dm_dict1, dm_dict2>>
    /\ MergeFrame

NextMerge == DeepMerge

SpecMerge == InitMerge /\ [][NextMerge]_vars

-----------------------------------------------------------------------------
(* Properties of deep_merge_dicts.                                          *)

\* r is the right-biased deep merge of d1 and d2
RECURSIVE IsRightBiasedMerge(_, _, _)
IsRightBiasedMerge(r, d1, d2) ==
    /\ DOMAIN r = (DOMAIN d1) \cup (DOMAIN d2)
    /\ \A key \in DOMAIN r :
        IF key \in DOMAIN d1 /\ key \in DOMAIN d2 /\ d1[key].t = "d" /\ d2[key].t = "d"
        THEN r[key].t = "d" /\ IsRightBiasedMerge(r[key].m, d1[key].m, d2[key].m)
        ELSE IF key \in DOMAIN d2 THEN r[key] = d2[key]
        ELSE r[key] = d1[key]

\* C15: the result of deep_merge_dicts has the union of the keys of d1 and d2;
\* a key that holds a mapping in both holds their recursive merge, any other key
\* of d2 holds d2's value, the rest hold d1's; and no dict object that existed
\* before the call, at any depth of d1 or d2, is changed by it.
C15_DeepMergeRightBiasedNonDestructive ==
    dm_result # 0 =>
        /\ IsRightBiasedMerge(Deref(dm_heap, dm_result).m,
                              Deref(dm_before, dm_dict1).m,
                              Deref(dm_before, dm_dict2).m)
        /\ \A id \in DOMAIN dm_before : dm_heap[id] = dm_before[id]

\* {a: {x: 1}} merged with {a: {y: 2}} gave {a: {x: 1, y: 2}}
C15_Witness ==
    /\ dm_result # 0
    /\ Deref(dm_before, dm_dict1) = D("a" :> D("x" :> S(1)))
    /\ Deref(dm_before, dm_dict2) = D("a" :> D("y" :> S(2)))
    /\ Deref(dm_heap, dm_result) = D("a" :> D(("x" :> S(1)) @@ ("y" :> S(2))))

-----------------------------------------------------------------------------
(* Shared appliance state and the entities' snapshots.  Appliance.state and  *)
(* every entity's appliance_status are references to state dict objects; a   *)
(* push event changes the object in place, a poll or a deferred update puts  *)
(* a new object in its place.  An action is the code one task runs between   *)
(* two suspensions; an entity is read by the event loop between two such     *)
(* runs.                                                                     *)

MaxObjects == 2

Objects == 1..MaxObjects

\* reported trees fetched or pushed for the appliance
SharedPayloads ==
    { Opt("K", k) @@ Opt("timeToEnd", t) :
        k \in {Absent, S(1)},
        t \in {Absent, S(0), S(1)} }

\* the data of the push events: single-field patches and partial trees
SharedEvents ==
    { ("property" :> Str("K")) @@ ("value" :> S(MaxVal)),
      ("property" :> Str("timeToEnd")) @@ ("value" :> S(0)),
      ("property" :> Str("timeToEnd")) @@ ("value" :> S(1)) }
        \cup (SharedPayloads \ {EmptyMap})

\* the objects a reference holds
Live(state_ref, entities) == ({state_ref} \cup {entities[e] : e \in DOMAIN entities}) \ {0}

\* the objects no reference holds are gone
Collect(heap, live) == [o \in Objects |-> IF o \in live THEN heap[o] ELSE Absent]

NewObject(live) == CHOOSE o \in Objects \ live : \A p \in Objects \ live : o <= p

\* for entity in self.entities: entity.update(self.state), stopping after the
\* first entity
notify_first_entity(entities, object) ==
    [e \in DOMAIN entities |->
        IF e = (CHOOSE x \in DOMAIN entities : TRUE) THEN object ELSE entities[e]]

\* for entity in self.entities: entity.update(self.state)
notify_entities(entities, object) == [e \in DOMAIN entities |-> object]

\* async_set_updated_data: _handle_coordinator_update of the entities that
\* listen to the coordinator
handle_coordinator_update(entities, listening, object) ==
    [e \in DOMAIN entities |-> IF e \in listening THEN object ELSE entities[e]]

\* the entities that listen to the coordinator: none before the platforms are
\* set up, all of them afterwards
Listening == {{}, Entities}

\* Appliance.update with a fetched state dict, then the coordinator's listeners
appliance_update(heap, state_ref, entities, listening, fetched) ==
    LET object == NewObject(Live(state_ref, entities))
        updated == handle_coordinator_update(notify_entities(entities, object),
                                             listening, object)
    IN  [heap |-> Collect([heap EXCEPT ![object] =
                               ApplianceUpdateState(sh_catalog, fetched)],
                          Live(object, updated)),
         state |-> object,
         entities |-> updated]

\* Appliance.update_reported_data, then the coordinator's listeners
appliance_update_reported_data(heap, state_ref, entities, listening, reported_data) ==
    LET st == heap[state_ref]
        changed == IF "property" \in DOMAIN reported_data /\ "value" \in DOMAIN reported_data
                   THEN PatchReported(st, reported_data["property"].s, reported_data["value"])
                   ELSE MergeReported(sh_catalog, st, reported_data)
        updated == handle_coordinator_update(notify_entities(entities, state_ref),
                                             listening, state_ref)
    IN  [heap |-> Collect([heap EXCEPT ![state_ref] = changed], Live(state_ref, updated)),
         state |-> state_ref,
         entities |-> updated]

SharedFrame == UNCHANGED <<stateVars, classVars, writeVars, wsVars, uidVars, setupVars, pollVars, boolVars, mergeVars, readVars, keyVars, numberVars, cycleVars, pairVars, switchVars>>

\* setup_entities: the appliance is built on a fetched state; the entities have
\* no appliance_status yet
InitShared ==
    /\ StateIdle
    /\ ClassifyIdle
    /\ WriteIdle
    /\ WsIdle
    /\ UidIdle
    /\ SetupIdle
    /\ PollIdle
    /\ BoolIdle
    /\ MergeIdle
    /\ ReadIdle
    /\ KeyIdle
    /\ NumberIdle
    /\ CycleIdle
    /\ PairIdle
    /\ SwitchIdle
    /\ sh_catalog \in CatalogChoices
    /\ \E rep \in SharedPayloads :
           sh_heap = [o \in Objects |-> IF o = 1 THEN get_appliance_state(rep) ELSE Absent]
    /\ sh_state = 1
    /\ sh_entities = [e \in Entities |-> 0]
    /\ sh_poll = "idle"
    /\ sh_deferred = "none"
    /\ sh_read = NoneV

SetShared(r) ==
    /\ sh_heap' = r.heap
    /\ sh_state' = r.state
    /\ sh_entities' = r.entities

\* _async_update_data: the state of the appliance is requested
SharedPollStart ==
    /\ sh_poll = "idle"
    /\ sh_poll' = "fetching"
    /\ UNCHANGED <<sh_catalog, sh_heap, sh_state, sh_entities, sh_deferred, sh_read>>
    /\ SharedFrame

\* _async_update_data: the state has come, Appliance.update; the poll is over
\* and the coordinator tells its listeners
SharedPollReturns ==
    \E rep \in SharedPayloads, listening \in Listening :
        /\ sh_poll = "fetching"
        /\ SetShared(appliance_update(sh_heap, sh_state, sh_entities, listening,
                                      get_appliance_state(rep)))
        /\ sh_poll' = "idle"
        /\ UNCHANGED <<sh_catalog, sh_deferred, sh_read>>
        /\ SharedFrame

\* _async_update_data: get_appliance_state raises, the poll ends
SharedPollFails ==
    /\ sh_poll = "fetching"
    /\ sh_poll' = "idle"
    /\ UNCHANGED <<sh_catalog, sh_heap, sh_state, sh_entities, sh_deferred, sh_read>>
    /\ SharedFrame

\* incoming_data: Appliance.update_reported_data, async_set_updated_data, and
\* the deferred_update task when the block asks for one
SharedPushEvent ==
    \E data \in SharedEvents, listening \in Listening :
        /\ SetShared(appliance_update_reported_data(sh_heap, sh_state, sh_entities,
                                                    listening, data))
        /\ IF do_deferred(data)
           THEN sh_deferred = "none" /\ sh_deferred' = "sleeping"
           ELSE UNCHANGED sh_deferred
        /\ UNCHANGED <<sh_catalog, sh_poll, sh_read>>
        /\ SharedFrame

\* deferred_update: the sleep is over, the state of the appliance is requested
SharedDeferredWake ==
    /\ sh_deferred = "sleeping"
    /\ sh_deferred' = "fetching"
    /\ UNCHANGED <<sh_catalog, sh_heap, sh_state, sh_entities, sh_poll, sh_read>>
    /\ SharedFrame

\* deferred_update: the state has come, Appliance.update, async_set_updated_data
SharedDeferredUpdate ==
    \E rep \in SharedPayloads, listening \in Listening :
        /\ sh_deferred = "fetching"
        /\ SetShared(appliance_update(sh_heap, sh_state, sh_entities, listening,
                                      get_appliance_state(rep)))
        /\ sh_deferred' = "none"
        /\ UNCHANGED <<sh_catalog, sh_poll, sh_read>>
        /\ SharedFrame

\* an entity that has an appliance_status reads its reported_state
EntityRead ==
    \E e \in Entities :
        /\ sh_entities[e] # 0
        /\ sh_read' = [entity |-> e,
                       seen |-> reported_state(sh_heap[sh_entities[e]]),
                       current |-> reported_state(sh_heap[sh_state])]
        /\ UNCHANGED <<sh_catalog, sh_heap, sh_state, sh_entities, sh_poll, sh_deferred>>
        /\ SharedFrame

NextShared ==
    \/ SharedPollStart
    \/ SharedPollReturns
    \/ SharedPollFails
    \/ SharedPushEvent
    \/ SharedDeferredWake
    \/ SharedDeferredUpdate
    \/ EntityRead

SpecShared == InitShared /\ [][NextShared]_vars

-----------------------------------------------------------------------------
(* Properties of the shared state.                                          *)

\* C20: whatever the interleaving of polls, deferred updates, push events and
\* entity reads, an entity's read sees the tree the appliance holds at that
\* moment; the entities of the appliance never hold different snapshots; and
\* once an update has been completed every entity refers to the appliance's
\* current state.
C20_AtomicMergeThenNotify ==
    /\ sh_read # NoneV => sh_read.seen = sh_read.current
    /\ \A e1, e2 \in Entities : sh_entities[e1] = sh_entities[e2]
    /\ \A e \in Entities : sh_entities[e] # 0 => sh_entities[e] = sh_state

\* an entity has read a tree that a push event changed in place, while a poll
\* and a deferred update both wait for their answer
C20_Witness ==
    /\ sh_read # NoneV
    /\ sh_poll = "fetching"
    /\ sh_deferred = "fetching"
    /\ sh_read.current = reported_state(sh_heap[sh_state])
    /\ "timeToEnd" \in DOMAIN sh_read.seen /\ sh_read.seen["timeToEnd"] = S(1)

-----------------------------------------------------------------------------
(* ElectroluxEntity.extract_value on state snapshots that hold the attribute *)
(* at the top level, under properties.reported, in both places or nowhere.   *)

\* the values an attribute may hold
ReadValues == {S(0), S(1), B(FALSE)}

\* what the snapshot may hold under the source category
ReadCategories == {D(EmptyMap)} \cup {D("x" :> v) : v \in ReadValues}

\* a level of the snapshot: the attribute and the source category, each may be missing
ReadLevels ==
    { Opt("x", v) @@ Opt("S", c) :
        v \in {Absent} \cup ReadValues, c \in {Absent} \cup ReadCategories }

ReadStatuses == { top @@ get_appliance_state(rep) : top \in ReadLevels, rep \in ReadLevels }

ReadEntities ==
    { [entity_source |-> "", entity_attr |-> "x"],
      [entity_source |-> "S", entity_attr |-> "x"] }

ReadFrame == UNCHANGED <<stateVars, classVars, writeVars, wsVars, uidVars, setupVars, pollVars, boolVars, mergeVars, sharedVars, keyVars, numberVars, cycleVars, pairVars, switchVars>>

InitRead ==
    /\ StateIdle
    /\ ClassifyIdle
    /\ WriteIdle
    /\ WsIdle
    /\ UidIdle
    /\ SetupIdle
    /\ PollIdle
    /\ BoolIdle
    /\ MergeIdle
    /\ SharedIdle
    /\ KeyIdle
    /\ NumberIdle
    /\ CycleIdle
    /\ PairIdle
    /\ SwitchIdle
    /\ rd_status \in ReadStatuses
    /\ rd_entity \in ReadEntities
    /\ rd_result = NoneV
    /\ rd_pc = "input"

\* ElectroluxEntity.extract_value
ExtractValue ==
    /\ rd_pc = "input"
    /\ rd_result' = extract_value(rd_status, rd_entity)
    /\ rd_pc' = "done"
    /\ UNCHANGED <<rd_status, rd_entity>>
    /\ ReadFrame

NextRead == ExtractValue

SpecRead == InitRead /\ [][NextRead]_vars

-----------------------------------------------------------------------------
(* Properties of the read path.                                             *)

\* the attribute of the entity as the mapping level holds it, Absent when the
\* level does not hold it
ValueAt(level, e) ==
    IF e.entity_source = ""
    THEN IF e.entity_attr \in DOMAIN level THEN level[e.entity_attr] ELSE Absent
    ELSE IF e.entity_attr \in DOMAIN GetMap(level, e.entity_source)
         THEN level[e.entity_source].m[e.entity_attr]
         ELSE Absent

TopValue == ValueAt(rd_status, rd_entity)

ReportedValue == ValueAt(reported_state(rd_status), rd_entity)

C22_ReportedOnly ==
    (/\ rd_pc = "done"
     /\ DOMAIN rd_status \cap {"x", "S"} = {}
     /\ ReportedValue # Absent)
        => rd_result = ReportedValue

\* the attribute is 0 at the top level and extract_value returned None
C22_TopLevelZeroLost ==
    /\ rd_pc = "done"
    /\ rd_entity.entity_source = ""
    /\ TopValue = S(0)
    /\ rd_result = NoneV


-----------------------------------------------------------------------------
(* entity.py, number.py: the places that strip the vendor prefix fPPN from  *)
(* an attribute name before they compare it.                                *)

\* async_setup_entry: the key of the duplicate-entity filter
base_attr(entity_attr) ==
    strip(replace(replace(lower(entity_attr), "fppn_", ""), "fppn", ""), "_")

\* ElectroluxEntity.__init__: self.entity_key
entity_key(entity_attr) ==
    LET entity_attr_lower == lower(entity_attr)
    IN  IF startswith(entity_attr_lower, "fppn_")
        THEN strip(replace(entity_attr_lower, "fppn_", ""), "_")
        ELSE IF startswith(entity_attr_lower, "fppn")
        THEN strip(replace(entity_attr_lower, "fppn", ""), "_")
        ELSE strip(entity_attr_lower, "_")

\* ElectroluxNumber.native_max_value / native_min_value / native_step: the key
\* looked up in the capabilities of the current program
program_entity_key(entity_attr) == strip(replace(lower(entity_attr), "fppn_", ""), "_")

\* the key of every site for one attribute name
SiteKeys(entity_attr) ==
    [filter |-> base_attr(entity_attr),
     entity_key |-> entity_key(entity_attr),
     old_unique_id |-> legacy_normalized(entity_attr),
     new_unique_id |-> hash_normalized(entity_attr),
     program |-> program_entity_key(entity_attr)]

\* each site applied to the key it computed
SiteKeysAgain(keys) ==
    [filter |-> base_attr(keys.filter),
     entity_key |-> entity_key(keys.entity_key),
     old_unique_id |-> legacy_normalized(keys.old_unique_id),
     new_unique_id |-> hash_normalized(keys.new_unique_id),
     program |-> program_entity_key(keys.program)]

KeyPrefixes == {"", "fPPN_", "fPPN", "FPPN_", "fppn", "_"}

KeyBodies == {"TargetTemp", "mode", "x_fppn_y", "fppnx"}

KeySuffixes == {"", "_"}

KeyAttrs == { p \o b \o x : p \in KeyPrefixes, b \in KeyBodies, x \in KeySuffixes }

KeyFrame == UNCHANGED <<stateVars, classVars, writeVars, wsVars, uidVars, setupVars, pollVars, boolVars, mergeVars, sharedVars, readVars, numberVars, cycleVars, pairVars, switchVars>>

InitKey ==
    /\ StateIdle
    /\ ClassifyIdle
    /\ WriteIdle
    /\ WsIdle
    /\ UidIdle
    /\ SetupIdle
    /\ PollIdle
    /\ BoolIdle
    /\ MergeIdle
    /\ SharedIdle
    /\ ReadIdle
    /\ NumberIdle
    /\ CycleIdle
    /\ PairIdle
    /\ SwitchIdle
    /\ nk_attr \in KeyAttrs
    /\ nk_keys = NoneV
    /\ nk_again = NoneV
    /\ nk_pc = "input"

\* every site computes its key for the attribute name
Normalize ==
    /\ nk_pc = "input"
    /\ nk_keys' = SiteKeys(nk_attr)
    /\ nk_pc' = "keyed"
    /\ UNCHANGED <<nk_attr, nk_again>>
    /\ KeyFrame

\* every site computes its key for the key it computed
NormalizeAgain ==
    /\ nk_pc = "keyed"
    /\ nk_again' = SiteKeysAgain(nk_keys)
    /\ nk_pc' = "done"
    /\ UNCHANGED <<nk_attr, nk_keys>>
    /\ KeyFrame

NextKey == Normalize \/ NormalizeAgain

SpecKey == InitKey /\ [][NextKey]_vars

-----------------------------------------------------------------------------
(* Properties of the normalisation.                                         *)

Sites == {"filter", "entity_key", "old_unique_id", "new_unique_id", "program"}

\* C26: for every attribute name the duplicate filter, entity_key, the two
\* branches of unique_id and the program-capability lookup of the number
\* entity compute the same key, and computing the key of that key gives it
\* back.
C26_ConsistentPrefixNormalization ==
    nk_pc = "done" =>
        /\ \A a, b \in Sites : nk_keys[a] = nk_keys[b]
        /\ \A a \in Sites : nk_again[a] = nk_keys[a]

\* entity_key and the hash-based branch of unique_id agree on every name
C26_EntityKeyIsHashKey ==
    nk_pc \in {"keyed", "done"} => nk_keys.entity_key = nk_keys.new_unique_id

\* the prefix without underscore stays in the key of the program lookup
C26_ProgramKeyKeepsPrefix ==
    /\ nk_pc = "done"
    /\ nk_attr = "fPPNmode"
    /\ nk_keys.entity_key = "mode"
    /\ nk_keys.program = "fppnmode"

\* an underscore at the edge stays in the legacy identifier of a name
\* without prefix
C26_LegacyKeyKeepsUnderscore ==
    /\ nk_pc = "done"
    /\ nk_attr = "_mode"
    /\ nk_keys.new_unique_id = "mode"
    /\ nk_keys.old_unique_id = "_mode"

\* the key of a key differs from the key
C26_NotIdempotent ==
    /\ nk_pc = "done"
    /\ nk_again.entity_key # nk_keys.entity_key

-----------------------------------------------------------------------------
(* number.py: ElectroluxNumber.native_value. Numbers are integers.          *)

\* math.ceil(n / d) for d > 0
CeilDiv(n, d) == -((-n) \div d)

\* util.time_seconds_to_minutes
time_seconds_to_minutes(seconds) ==
    IF seconds = NoneV THEN NoneV
    ELSE IF seconds = S(-1) THEN S(-1)
    ELSE S(CeilDiv(seconds.v, 60))

UnitOfTime == {"s", "min"}

UnitOfTemperature == {"C"}

\* the value of native_value before the fallbacks
ConvertedValue(entity, extracted) ==
    IF entity.unit = "s" THEN time_seconds_to_minutes(extracted) ELSE extracted

\* the capability default, the capability min for the placeholder of an unset time
DefaultValue(entity) ==
    LET value == Get(entity.capability.m, "default")
    IN  IF value = Str("INVALID_OR_NOT_SET_TIME") THEN Get(entity.capability.m, "min")
        ELSE value

\* the unit post-processing of native_value: round(value, 2) of an integer is
\* the integer, max(value, 0) for a time
PostProcess(entity, value) ==
    IF entity.unit \in UnitOfTemperature THEN value
    ELSE IF entity.unit \in UnitOfTime THEN S(Max({value.v, 0}))
    ELSE value

\* ElectroluxNumber.native_value: what it returns and _cached_value after it
native_value(entity, extracted, cached) ==
    LET value == ConvertedValue(entity, extracted)
        filled == IF ~Truthy(value) THEN DefaultValue(entity) ELSE value
    IN  IF ~Truthy(filled)
        THEN [result |-> cached, cached |-> cached]
        ELSE [result |-> PostProcess(entity, filled), cached |-> PostProcess(entity, filled)]

MaxReads == 2

NumberUnits == {"s", "min", "C", "none"}

NumberDefaults == {Absent, S(0), S(30), Str("INVALID_OR_NOT_SET_TIME")}

NumberMins == {Absent, S(1)}

NumberEntities ==
    { [unit |-> u, capability |-> D(Opt("default", d) @@ Opt("min", mn))] :
        u \in NumberUnits, d \in NumberDefaults, mn \in NumberMins }

\* what extract_value can give: nothing, or a number of the reported state
NumberReadings == {NoneV, S(0), S(-1), S(-90), S(7), S(90)}

NumberFrame == UNCHANGED <<stateVars, classVars, writeVars, wsVars, uidVars, setupVars, pollVars, boolVars, mergeVars, sharedVars, readVars, keyVars, cycleVars, pairVars, switchVars>>

InitNumber ==
    /\ StateIdle
    /\ ClassifyIdle
    /\ WriteIdle
    /\ WsIdle
    /\ UidIdle
    /\ SetupIdle
    /\ PollIdle
    /\ BoolIdle
    /\ MergeIdle
    /\ SharedIdle
    /\ ReadIdle
    /\ KeyIdle
    /\ CycleIdle
    /\ PairIdle
    /\ SwitchIdle
    /\ nv_entity \in NumberEntities
    /\ nv_extracted = NoneV
    /\ nv_before = NoneV
    /\ nv_cached = NoneV
    /\ nv_result = NoneV
    /\ nv_reads = 0

\* an evaluation of the native_value property
NativeValue ==
    /\ nv_reads < MaxReads
    /\ \E extracted \in NumberReadings :
          LET r == native_value(nv_entity, extracted, nv_cached)
          IN  /\ nv_extracted' = extracted
              /\ nv_result' = r.result
              /\ nv_cached' = r.cached
    /\ nv_before' = nv_cached
    /\ nv_reads' = nv_reads + 1
    /\ UNCHANGED nv_entity
    /\ NumberFrame

NextNumber == NativeValue

SpecNumber == InitNumber /\ [][NextNumber]_vars

-----------------------------------------------------------------------------
(* Properties of native_value.                                              *)

\* the last evaluation used the default of the capability or the cached value
FellBack ==
    \/ /\ Truthy(DefaultValue(nv_entity))
       /\ nv_result = PostProcess(nv_entity, DefaultValue(nv_entity))
    \/ /\ ~Truthy(DefaultValue(nv_entity))
       /\ nv_result = nv_before

\* the last evaluation returned the value it extracted, post-processed
ReturnedExtracted ==
    nv_result = PostProcess(nv_entity, ConvertedValue(nv_entity, nv_extracted))

\* C27: native_value returns the extracted value, post-processed for the
\* unit, whenever extraction gives a value, 0 included; it uses the default of
\* the capability or the cached value only when extraction gives nothing; for
\* an entity with a time unit the value returned is never negative.
C27_FallbackOnlyWhenNothingExtracted ==
    nv_reads > 0 =>
        /\ nv_extracted # NoneV => ReturnedExtracted
        /\ nv_extracted = NoneV => FellBack
        /\ (nv_entity.unit \in UnitOfTime /\ nv_result # NoneV) => nv_result.v >= 0

\* the same with the value 0 counted as nothing
C27_FallbackWhenNothingOrZero ==
    nv_reads > 0 =>
        /\ Truthy(ConvertedValue(nv_entity, nv_extracted)) => ReturnedExtracted
        /\ ~Truthy(ConvertedValue(nv_entity, nv_extracted)) => FellBack
        /\ (nv_entity.unit \in UnitOfTime /\ nv_result # NoneV) => nv_result.v >= 0

\* 0 was extracted and the value of an earlier evaluation was returned
C27_ZeroReplacedByCached ==
    /\ nv_reads = 2
    /\ nv_extracted = S(0)
    /\ nv_before = S(7)
    /\ nv_result = S(7)

-----------------------------------------------------------------------------
(* coordinator.py: renew_websocket round after round. The tasks are followed *)
(* by their state only, so that the rounds need no bound: rn_sse is the task *)
(* coordinator._sse_task refers to, rn_stream the task the API client's      *)
(* _sse_task refers to. The appliance list is not empty.                    *)

Cy ==
    [pc |-> rn_pc, cancel |-> rn_cancel, sse |-> rn_sse, stream |-> rn_stream,
     close |-> rn_close, last |-> rn_last, restarts |-> rn_restarts, erred |-> rn_erred]

SetCy(c) ==
    /\ rn_pc' = c.pc
    /\ rn_cancel' = c.cancel
    /\ rn_sse' = c.sse
    /\ rn_stream' = c.stream
    /\ rn_close' = c.close
    /\ rn_last' = c.last
    /\ rn_restarts' = c.restarts
    /\ rn_erred' = c.erred

\* task.done() is false
NotDone(task) == task \in {"pending", "running", "cancelling"}

\* renew_websocket with its exception handler around the loop: the task ends
cy_exception_ends(c) == [c EXCEPT !.pc = "done", !.last = "error", !.erred = TRUE]

\* renew_websocket: "except Exception" inside the loop logs, and the loop goes
\* on with the next sleep
cy_exception(c) == [c EXCEPT !.pc = "sleep", !.last = "error", !.erred = TRUE]

\* renew_websocket: listen_websocket, then the next sleep; raises says that
\* listen_websocket raised
cy_restart(c, raises) ==
    IF raises THEN cy_exception(c)
    ELSE [c EXCEPT !.sse = "pending", !.pc = "sleep", !.last = "restart",
                   !.restarts = 1 - @]

\* renew_websocket from its call of disconnect_websocket on: the stream task
\* is cancelled and awaited; a stream that ended with an error raises in the
\* await, which disconnect_websocket logs
cy_disconnect(c, raises) ==
    IF NotDone(c.stream)
    THEN [c EXCEPT !.stream = "cancelling", !.pc = "await_stream", !.last = "await"]
    ELSE IF c.stream = "cancelled" THEN cy_restart([c EXCEPT !.stream = "none"], raises)
    ELSE cy_restart(c, raises)

\* disconnect_websocket, called by close_websocket
cy_close_disconnect(c) ==
    IF NotDone(c.stream)
    THEN [c EXCEPT !.stream = "cancelling", !.close = "await_disconnect"]
    ELSE IF c.stream = "cancelled" THEN [c EXCEPT !.stream = "none", !.close = "returned"]
    ELSE [c EXCEPT !.close = "returned"]

\* the step runs up to listen_websocket without a suspension
ReachesListen(c) == ~NotDone(c.stream)

CycleFrame == UNCHANGED <<stateVars, classVars, writeVars, wsVars, uidVars, setupVars, pollVars, boolVars, mergeVars, sharedVars, readVars, keyVars, numberVars, pairVars, switchVars>>

\* async_setup_entry has called listen_websocket and
\* launch_websocket_renewal_task
InitCycle ==
    /\ StateIdle
    /\ ClassifyIdle
    /\ WriteIdle
    /\ WsIdle
    /\ UidIdle
    /\ SetupIdle
    /\ PollIdle
    /\ BoolIdle
    /\ MergeIdle
    /\ SharedIdle
    /\ ReadIdle
    /\ KeyIdle
    /\ NumberIdle
    /\ PairIdle
    /\ SwitchIdle
    /\ rn_pc = "sleep"
    /\ rn_cancel = FALSE
    /\ rn_sse = "pending"
    /\ rn_stream = "none"
    /\ rn_close = "idle"
    /\ rn_last = "none"
    /\ rn_restarts = 0
    /\ rn_erred = FALSE

\* the watcher task runs watch_for_appliance_state_updates: the event stream
\* task is created
CyWatcherRun ==
    /\ rn_sse = "pending"
    /\ SetCy([Cy EXCEPT !.sse = "done", !.stream = "running"])
    /\ CycleFrame

\* watch_for_appliance_state_updates raises before it has a stream
CyWatcherFails ==
    /\ rn_sse = "pending"
    /\ SetCy([Cy EXCEPT !.sse = "failed"])
    /\ CycleFrame

\* the cancelled watcher task ends before it has run
CyWatcherCancelled ==
    /\ rn_sse = "cancelling"
    /\ SetCy([Cy EXCEPT !.sse = "cancelled"])
    /\ CycleFrame

\* the event stream ends with an error of its own
CyStreamFails ==
    /\ rn_stream = "running"
    /\ SetCy([Cy EXCEPT !.stream = "failed"])
    /\ CycleFrame

\* the cancelled event stream task ends
CyStreamCancelled ==
    /\ rn_stream = "cancelling"
    /\ SetCy([Cy EXCEPT !.stream = "cancelled"])
    /\ CycleFrame

\* renew_websocket: the sleep is over
CyRenewWake(raises) ==
    /\ rn_pc = "sleep"
    /\ ~rn_cancel
    /\ IF NotDone(rn_sse)
       THEN /\ ~raises
            /\ SetCy([Cy EXCEPT !.sse = "cancelling", !.pc = "await_sse",
                                !.last = "await"])
       ELSE /\ raises => ReachesListen(Cy)
            /\ SetCy(cy_disconnect(Cy, raises))
    /\ CycleFrame

\* renew_websocket: the sleep raises CancelledError, the task ends
CyRenewCancelled ==
    /\ rn_pc = "sleep"
    /\ rn_cancel
    /\ SetCy([Cy EXCEPT !.pc = "done", !.cancel = FALSE])
    /\ CycleFrame

\* renew_websocket: the awaited watcher task is done
CyRenewSseDone(raises) ==
    /\ rn_pc = "await_sse"
    /\ ~NotDone(rn_sse)
    /\ raises => ReachesListen(Cy)
    /\ SetCy(cy_disconnect([Cy EXCEPT !.sse = "none"], raises))
    /\ CycleFrame

\* disconnect_websocket in renew_websocket: the awaited stream task is done
CyRenewStreamDone(raises) ==
    /\ rn_pc = "await_stream"
    /\ ~NotDone(rn_stream)
    /\ SetCy(cy_restart([Cy EXCEPT !.stream = IF @ = "cancelled" THEN "none" ELSE @],
                        raises))
    /\ CycleFrame

\* close_websocket up to its first suspension
CyCloseWebsocket ==
    /\ rn_close = "idle"
    /\ LET c == IF rn_pc = "sleep" THEN [Cy EXCEPT !.cancel = TRUE] ELSE Cy
       IN  IF NotDone(c.sse)
           THEN SetCy([c EXCEPT !.sse = "cancelling", !.close = "await_sse"])
           ELSE SetCy(cy_close_disconnect(c))
    /\ CycleFrame

\* close_websocket: the awaited watcher task is done
CyCloseSseDone ==
    /\ rn_close = "await_sse"
    /\ ~NotDone(rn_sse)
    /\ SetCy(cy_close_disconnect([Cy EXCEPT !.sse = "none"]))
    /\ CycleFrame

\* disconnect_websocket in close_websocket: the awaited stream task is done
CyCloseDisconnectDone ==
    /\ rn_close = "await_disconnect"
    /\ ~NotDone(rn_stream)
    /\ SetCy([Cy EXCEPT !.stream = IF @ = "cancelled" THEN "none" ELSE @,
                        !.close = "returned"])
    /\ CycleFrame

\* a step of renew_websocket
RenewStep(raises) ==
    CyRenewWake(raises) \/ CyRenewSseDone(raises) \/ CyRenewStreamDone(raises)

NextCycle ==
    \/ CyWatcherRun
    \/ CyWatcherFails
    \/ CyWatcherCancelled
    \/ CyStreamFails
    \/ CyStreamCancelled
    \/ \E raises \in BOOLEAN : RenewStep(raises)
    \/ CyRenewCancelled
    \/ CyCloseWebsocket
    \/ CyCloseSseDone
    \/ CyCloseDisconnectDone

SpecCycle == InitCycle /\ [][NextCycle]_vars

\* the event loop runs every task that can run: a cancelled task ends, a sleep
\* ends, an await of a finished task returns; and listen_websocket does not
\* raise in every round in which it is called
CycleFairness ==
    /\ WF_vars(CyWatcherCancelled)
    /\ WF_vars(CyStreamCancelled)
    /\ WF_vars(\E raises \in BOOLEAN : RenewStep(raises))
    /\ SF_vars(RenewStep(FALSE) /\ rn_restarts' # rn_restarts)

SpecCycleFair == SpecCycle /\ CycleFairness

-----------------------------------------------------------------------------
(* Properties of the renewal cycle.                                         *)

TornDown == rn_close # "idle"

\* a step in which renew_websocket has called listen_websocket
Restarted == rn_restarts' # rn_restarts

-----------------------------------------------------------------------------
(* number.py: async_setup_entry hands every number entity of an appliance to *)
(* async_add_entities, which reads unique_id of each. The entities are those *)
(* of classes that take unique_id from ElectroluxEntity.                    *)

PairAttrs == {"fPPN_TargetTemp", "targetTemp", "fppnMode", "mode"}

\* the entities Appliance.setup can derive: one per attribute path
PairPool == { UidEntity(attr, source) : attr \in PairAttrs, source \in UidSources }

\* the legacy identifiers a registry of an earlier installation can hold
PairRegistryUniverse(entry, entities) ==
    { RegistryEntry(entry.entry_id, old_unique_id(entry, e)) : e \in entities }

PairFrame == UNCHANGED <<stateVars, classVars, writeVars, wsVars, uidVars, setupVars, pollVars, boolVars, mergeVars, sharedVars, readVars, keyVars, numberVars, cycleVars, switchVars>>

InitPair ==
    /\ StateIdle
    /\ ClassifyIdle
    /\ WriteIdle
    /\ WsIdle
    /\ UidIdle
    /\ SetupIdle
    /\ PollIdle
    /\ BoolIdle
    /\ MergeIdle
    /\ SharedIdle
    /\ ReadIdle
    /\ KeyIdle
    /\ NumberIdle
    /\ CycleIdle
    /\ SwitchIdle
    /\ pr_entities \in {es \in SUBSET PairPool : Cardinality(es) = 2}
    /\ \E key \in ApiKeys : pr_entry = ConfigEntry(key)
    /\ pr_registry \in SUBSET PairRegistryUniverse(pr_entry, pr_entities)
    /\ pr_ids = NoneV

\* async_add_entities reads unique_id of every entity
PairUniqueIds ==
    /\ pr_ids' = [e \in pr_entities |-> unique_id(pr_registry, pr_entry, e)]
    /\ UNCHANGED <<pr_entities, pr_entry, pr_registry>>
    /\ PairFrame

\* the entity registry keeps the identifiers it was given
PairRegister ==
    /\ pr_ids # NoneV
    /\ pr_registry' = pr_registry \cup
                          { RegistryEntry(pr_entry.entry_id, pr_ids[e]) : e \in pr_entities }
    /\ UNCHANGED <<pr_entities, pr_entry, pr_ids>>
    /\ PairFrame

NextPair == PairUniqueIds \/ PairRegister

SpecPair == InitPair /\ [][NextPair]_vars

-----------------------------------------------------------------------------
(* Properties of the unique ids of one appliance.                           *)

\* C29: two distinct entities of one appliance, an attribute with the fPPN
\* prefix next to the attribute without it included, have different unique
\* ids under the same registry.
C29_UniqueIdsPairwiseDistinct ==
    pr_ids # NoneV =>
        \A a, b \in pr_entities : a # b => pr_ids[a] # pr_ids[b]

\* two entities whose attributes differ beyond the prefix and the letter
\* case, or whose sources differ, have different unique ids
C29_DistinctBeyondPrefix ==
    pr_ids # NoneV =>
        \A a, b \in pr_entities :
            (\/ a.entity_source # b.entity_source
             \/ hash_normalized(a.entity_attr) # hash_normalized(b.entity_attr))
                => pr_ids[a] # pr_ids[b]

\* the attribute with the prefix and the attribute without it got one and the
\* same identifier
C29_TwinsShareId ==
    /\ pr_ids # NoneV
    /\ \E a, b \in pr_entities :
          /\ a.entity_attr = "fPPN_TargetTemp"
          /\ b.entity_attr = "targetTemp"
          /\ a.entity_source = b.entity_source
          /\ pr_ids[a] = pr_ids[b]

-----------------------------------------------------------------------------
(* switch.py: ElectroluxSwitch.is_on, for a switch whose descriptor is      *)
(* type=string, access=readwrite, values {ON, OFF}.                         *)

\* ElectroluxEntity.get_state_attr
get_state_attr(st, path) ==
    IF Contains(path, "/")
    THEN IF Truthy(Get(reported_state(st), path)) THEN Get(reported_state(st), path)
         ELSE Get(GetMap(reported_state(st), split(path, "/")[1]), split(path, "/")[2])
    ELSE Get(reported_state(st), path)

\* bool(value) of a value that is not a bool
bool(value) == B(Truthy(value))

\* ElectroluxSwitch.is_on: what it returns and _cached_value after it
is_on(st, e, cached) ==
    LET extracted == extract_value(st, e)
        value == IF extracted = NoneV /\ e.state_mapping # NoneV
                 THEN get_state_attr(st, e.state_mapping.s)
                 ELSE extracted
    IN  IF value = NoneV
        THEN [result |-> IF cached # NoneV THEN cached ELSE B(FALSE), cached |-> cached]
        ELSE IF value.t = "b" THEN [result |-> value, cached |-> value]
        ELSE [result |-> bool(value), cached |-> bool(value)]

SwitchEntities ==
    { [entity_source |-> src, entity_attr |-> "x", state_mapping |-> mapping] :
        src \in {"", "S"}, mapping \in {NoneV, Str("y"), Str("S/y")} }

\* what the appliance reports for the attribute of the switch
SwitchValues == {Absent, Str("ON"), Str("OFF"), Str("on"), Str("Off"), B(TRUE), B(FALSE)}

\* what it reports for the attribute state_mapping names
MappedValues == {Absent, Str("OFF"), B(TRUE)}

\* the reported trees: x and y at the top and under the source S
SwitchReports ==
    { Opt("x", v) @@ Opt("y", w) : v \in SwitchValues, w \in MappedValues } \cup
    { "S" :> D(Opt("x", v) @@ Opt("y", w)) : v \in SwitchValues, w \in MappedValues }

SwitchFrame == UNCHANGED <<stateVars, classVars, writeVars, wsVars, uidVars, setupVars, pollVars, boolVars, mergeVars, sharedVars, readVars, keyVars, numberVars, cycleVars, pairVars>>

InitSwitch ==
    /\ StateIdle
    /\ ClassifyIdle
    /\ WriteIdle
    /\ WsIdle
    /\ UidIdle
    /\ SetupIdle
    /\ PollIdle
    /\ BoolIdle
    /\ MergeIdle
    /\ SharedIdle
    /\ ReadIdle
    /\ KeyIdle
    /\ NumberIdle
    /\ CycleIdle
    /\ PairIdle
    /\ sw_entity \in SwitchEntities
    /\ sw_status = get_appliance_state(EmptyMap)
    /\ sw_cached = NoneV
    /\ sw_result = NoneV
    /\ sw_pc = "reported"

\* the coordinator hands a new state of the appliance to the entity
SwitchReport ==
    /\ \E rep \in SwitchReports : sw_status' = get_appliance_state(rep)
    /\ sw_pc' = "reported"
    /\ UNCHANGED <<sw_entity, sw_cached, sw_result>>
    /\ SwitchFrame

\* an evaluation of the is_on property
SwitchIsOn ==
    /\ LET r == is_on(sw_status, sw_entity, sw_cached)
       IN  /\ sw_result' = r.result
           /\ sw_cached' = r.cached
    /\ sw_pc' = "read"
    /\ UNCHANGED <<sw_entity, sw_status>>
    /\ SwitchFrame

NextSwitch == SwitchReport \/ SwitchIsOn

SpecSwitch == InitSwitch /\ [][NextSwitch]_vars

-----------------------------------------------------------------------------
(* Properties of is_on.                                                     *)

\* the value the appliance reports for the attribute of the switch
SwitchReported ==
    IF sw_entity.entity_source = "" THEN Get(reported_state(sw_status), "x")
    ELSE Get(GetMap(reported_state(sw_status), sw_entity.entity_source), "x")

\* the reported value is the word ON or the word OFF, in any letter case
ReportsOnOrOff == SwitchReported.t = "str" /\ upper(SwitchReported.s) \in {"ON", "OFF"}

\* C30: is_on of a switch with the values ON and OFF is true exactly when the
\* reported value of its attribute is ON, in any letter case, and false when
\* it is OFF.
C30_StringSwitchReadsOnOff ==
    (sw_pc = "read" /\ ReportsOnOrOff) =>
        sw_result = B(upper(SwitchReported.s) = "ON")

\* is_on is true for a reported ON, and equal to the reported value when that
\* is a bool
C30_OnAndBoolRead ==
    sw_pc = "read" =>
        /\ (SwitchReported.t = "str" /\ upper(SwitchReported.s) = "ON") => sw_result = B(TRUE)
        /\ SwitchReported.t = "b" => sw_result = SwitchReported

\* the appliance reports OFF and is_on is true
C30_OffReadAsOn ==
    /\ sw_pc = "read"
    /\ SwitchReported = Str("OFF")
    /\ sw_result = B(TRUE)

====
